---- MODULE Spec2Model ----
(***************************************************************************)
(* State-machine model of the triangular-arbitrage engines of FinamPy:     *)
(*   - core/arb_executor.py, core/arb_calculator.py, core/arb_monitor.py   *)
(*     and run_arbitrage.py (ArbExecutor / ArbMonitor / ArbitrageApp);     *)
(*   - arbitrage_trader.py (ArbitrageTrader).                              *)
(* The repository ships several independent programs; the variable         *)
(* `program` says which one a behaviour runs.  Prices are integers in      *)
(* points (1 point = POINT = 0.0001), so spreads and deviations are exact. *)
(***************************************************************************)
EXTENDS Integers, Sequences, FiniteSets, TLC

VARIABLES
    program,        \* which program of the repository this behaviour runs
    PaperTrading,   \* ArbConfig.PaperTrading
    triangles,      \* ArbExecutor.triangles: the slot table
    nextOrder,      \* the next order id the broker will hand out
    closeCancels,   \* order id -> CancelOrder calls issued for it by a close
    last,           \* the last engine call: what it did and returned
    app,            \* ArbitrageApp: "running", "stopped"
    currency_pairs, \* ArbitrageTrader.currency_pairs: pair -> bid, ask, last
    active_triangles, \* ArbitrageTrader.active_triangles
    tpc,            \* ArbitrageTrader.run: the next step of the loop
    deviation_points, \* Triangle.deviation_points of the trader's templates
    ticks,          \* ArbMonitor.ticks: symbol -> reference to an ArbTick object
    objects,        \* the ArbTick objects created so far, by reference
    updates,        \* ArbMonitor.updates
    hq,             \* _handler: the quotes of the message still to process
    h_tick,         \* _handler: the tick built and not yet stored, or None
    received,       \* the quotes _handler has taken from the stream so far
    latest,         \* symbol -> the last quote taken from the stream
    r_cur,          \* reader: the currency of its get_tick call
    r_ref,          \* reader: what get_tick returned (None or a reference)
    r_vals,         \* reader: the fields read from that tick so far
    snapshot,       \* the quote cache (symbol -> tick) a scan of the calculator reads
    f_pairs,        \* the pair universe the catalogs are built from: <<base, quote>>
    f_currencies,   \* list(self.currencies): the currencies in iteration order
    f_triangles,    \* ArbitrageFinder.triangles
    t_triangles,    \* ArbitrageTrader.triangles as build_all_triangles leaves it
    f_deviation,    \* Triangle.deviation of the finder's templates
    built,          \* the engines whose constructor has built its catalog
    q_new,          \* on_quote: the quote it is storing in the pair, or None
    q_pc,           \* on_quote: how many fields of the pair it has assigned
    q_seen,         \* the quotes on_quote was called with so far
    q_read,         \* control loop: the fields of the pair read so far
    m_running,      \* ArbMonitor.running
    m_subscribed,   \* calls of fp.on_quote.subscribe(self._handler) so far
    m_threads,      \* subscription threads started so far
    m_quotes,       \* quotes the stream has sent so far
    m_updates,      \* ArbMonitor.updates under the quotes sent
    callbacks       \* ArbMonitor.callbacks: what each callback does when called

vars == <<program, PaperTrading, triangles, nextOrder, closeCancels, last, app,
          currency_pairs, active_triangles, tpc, deviation_points,
          ticks, objects, updates, hq, h_tick, received, latest, r_cur, r_ref, r_vals,
          snapshot, f_pairs, f_currencies, f_triangles, t_triangles, f_deviation, built,
          q_new, q_pc, q_seen, q_read,
          m_running, m_subscribed, m_threads, m_quotes, m_updates, callbacks>>

(***************************************************************************)
(* Bounds of the model.                                                    *)
(***************************************************************************)
\* slots of the table (the code allocates 50, arb_executor.py:32)
NumSlots == 3
\* order ids the broker hands out in one behaviour
MaxOrders == 6
\* templates of the trader's catalog that are scanned
NumTemplates == 2
\* quotes the stream delivers in one behaviour
MaxUpdates == 3
MaxStarts == 2
MaxCallbacks == 2
\* loop iterations after which a triangle has been held for the maximum
\* hold duration (ages are counted up to this value)
HoldTicks == 2

(***************************************************************************)
(* Configuration and static tables (config/arb_config.py).                 *)
(***************************************************************************)
MaxTriangles == 3
MinDeviation == 2
MaxSpread == 2

\* ArbitrageTrader's constructor arguments (arbitrage_trader.py, main)
min_deviation_points == 2
max_spread_points == 3
max_concurrent_triangles == 2
\* take_profit_points * lot_size * 1000 and stop_loss_points * lot_size * 1000
take_profit == 500
stop_loss == 300

\* ARB_TRIANGLE_PAIRS / ARB_TRIANGLE_FORMULAS, indexed by triangle type + 1
ARB_TRIANGLE_PAIRS ==
    << <<"USD", "EUR", "EUR">>, <<"USD", "JPY", "JPY">>, <<"USD", "JPY", "JPY">>,
       <<"EUR", "USD", "EUR">>, <<"GBP", "USD", "GBP">>, <<"CNY", "USD", "CNY">> >>

ARB_TRIANGLE_FORMULAS == <<0, 0, 0, 1, 1, 1>>

\* ARB_CURRENCY_PAIRS: currency code -> instrument symbol "<ticker>@<board>".
\* A symbol string s is modelled by the two parts s.split('@') yields.
CurrencyCodes ==
    {"USD", "EUR", "CNY", "GBP", "CHF", "JPY", "HKD", "BYN", "KZT", "TRY", "AUD", "CAD"}

Ticker(code) == IF code = "EUR" THEN "EUR_RUB__TOD" ELSE code \o "000000TOD"

ARB_CURRENCY_PAIRS == [code \in CurrencyCodes |-> [head |-> Ticker(code), board |-> "CETS"]]

\* the triangle types the model scans and opens: the first multiplication
\* and the first division entry of the catalog
TypeIds == {t \in 0..(Len(ARB_TRIANGLE_PAIRS) - 1) : t % 3 = 0}

SlotIds == 0..(NumSlots - 1)
OrderIds == 1..MaxOrders

(***************************************************************************)
(* Python values.  None is the empty tuple, a present value a 1-tuple.     *)
(***************************************************************************)
None == <<>>
Some(x) == <<x>>

Min(S) == CHOOSE x \in S : \A y \in S : x <= y

\* ticket strings: "" | an order id of the broker | "PAPER_<slot>_<leg>_<time>"
EmptyTicket == [kind |-> "", n |-> 0]
OrderTicket(id) == [kind |-> "ORD", n |-> id]
PaperTicket(slot, leg) == [kind |-> "PAPER", n |-> slot * 3 + leg]

\* ArbTriangle() with its dataclass defaults
DefaultTriangle ==
    [triangle_type |-> -1, direction |-> 0,
     tickets |-> <<EmptyTicket, EmptyTicket, EmptyTicket>>,
     entry_prices |-> <<0, 0, 0>>, lots |-> <<0, 0, 0>>, open_time |-> None,
     active |-> FALSE, compensation |-> FALSE, parent_index |-> -1]

\* ArbTriangle.get_side(index)
get_side(tri, index) ==
    IF tri.direction = 1 THEN (IF index < 2 THEN "BUY" ELSE "SELL")
    ELSE (IF index < 2 THEN "SELL" ELSE "BUY")

ActiveSlots(tris) == {i \in DOMAIN tris : tris[i].active}
ActiveCount(tris) == Cardinality(ActiveSlots(tris))

\* one broker call of the log of an engine call
Call(op, leg, id, resp, side) ==
    [op |-> op, leg |-> leg, id |-> id, resp |-> resp, side |-> side]

Responses == {"ok", "false", "raise"}

(***************************************************************************)
(* Ticks and opportunities (core/arb_models.py).                           *)
(***************************************************************************)
ArbTick(symbol, bid, ask, lastp) ==
    [symbol |-> symbol, bid |-> bid, ask |-> ask, last |-> lastp]

is_valid_any(t) == TRUE

is_valid(t) == t.bid > 0 /\ t.ask > 0 /\ t.last > 0

\* (ask - bid) / 0.0001 with prices in points
spread_points(t) == IF t.ask > 0 /\ t.bid > 0 THEN t.ask - t.bid ELSE 0

(***************************************************************************)
(* ArbExecutor (core/arb_executor.py).                                     *)
(***************************************************************************)
\* next((i for i, t in enumerate(self.triangles) if not t.active), None)
FirstFreeOverwrite(tris) ==
    IF \E i \in DOMAIN tris : ~tris[i].active
    THEN Some(Min({i \in DOMAIN tris : ~tris[i].active}))
    ELSE Some(0)

FirstFreeHighest(tris) ==
    IF \E i \in DOMAIN tris : ~tris[i].active
    THEN Some(CHOOSE i \in DOMAIN tris :
                  ~tris[i].active /\ \A j \in DOMAIN tris : ~tris[j].active => j <= i)
    ELSE None

FirstFree(tris) ==
    IF \E i \in DOMAIN tris : ~tris[i].active
    THEN Some(Min({i \in DOMAIN tris : ~tris[i].active}))
    ELSE None

\* symbols = [ARB_CURRENCY_PAIRS[code] for code in [tick.symbol.split('@')[0] ...]]
\* None stands for the KeyError of a code that is no key of the table.
ResolveSymbols(opp) ==
    IF \A i \in 1..3 : opp.ticks[i].symbol.head \in DOMAIN ARB_CURRENCY_PAIRS
    THEN Some([i \in 1..3 |-> ARB_CURRENCY_PAIRS[opp.ticks[i].symbol.head]])
    ELSE None

\* sides of the three orders
OrderSides(opp) ==
    IF opp.signal_type = "MUL"
    THEN IF opp.direction = 1 THEN <<"BUY", "BUY", "SELL">> ELSE <<"SELL", "SELL", "BUY">>
    ELSE IF opp.direction = 1 THEN <<"BUY", "SELL", "SELL">> ELSE <<"SELL", "BUY", "BUY">>

\* entry prices of the three orders
OrderPrices(opp) ==
    IF opp.signal_type = "MUL"
    THEN IF opp.direction = 1
         THEN <<opp.ticks[1].ask, opp.ticks[2].ask, opp.ticks[3].bid>>
         ELSE <<opp.ticks[1].bid, opp.ticks[2].bid, opp.ticks[3].ask>>
    ELSE IF opp.direction = 1
         THEN <<opp.ticks[1].ask, opp.ticks[2].bid, opp.ticks[3].bid>>
         ELSE <<opp.ticks[1].bid, opp.ticks[2].ask, opp.ticks[3].ask>>

close_position_broker(ticket, resp) == <<Call("CancelOrder", -1, ticket.n, resp, "")>>

close_position_retry(ticket, resp) ==
    IF ticket.kind = "PAPER" THEN <<>>
    ELSE IF resp = "ok" THEN <<Call("CancelOrder", -1, ticket.n, resp, "")>>
    ELSE <<Call("CancelOrder", -1, ticket.n, resp, ""),
           Call("CancelOrder", -1, ticket.n, resp, "")>>

\* close_position(ticket): the CancelOrder calls it issues; resp is the
\* broker's answer (a truthy result, a falsy one, or an exception), which
\* close_position turns into True / False without raising.
close_position(ticket, resp) ==
    IF ticket.kind = "PAPER" THEN <<>>
    ELSE <<Call("CancelOrder", -1, ticket.n, resp, "")>>

\* _rollback(tickets): close_position on every ticket placed so far
RECURSIVE rollbackDropLast(_, _)
rollbackDropLast(tickets, cresp) ==
    IF Len(tickets) <= 1 THEN <<>>
    ELSE close_position(Head(tickets), Head(cresp))
            \o rollbackDropLast(Tail(tickets), Tail(cresp))

RECURSIVE rollback(_, _)
rollback(tickets, cresp) ==
    IF tickets = <<>> THEN <<>>
    ELSE close_position(Head(tickets), Head(cresp))
            \o rollback(Tail(tickets), Tail(cresp))

\* the loop of close_triangle: close_position on every non-empty ticket,
\* whatever the earlier ones answered
RECURSIVE close_legs_abort(_, _)
close_legs_abort(tickets, cresp) ==
    IF tickets = <<>> THEN <<>>
    ELSE IF Head(tickets).kind = "" THEN close_legs_abort(Tail(tickets), Tail(cresp))
    ELSE IF Head(cresp) = "raise" /\ Head(tickets).kind # "PAPER"
         THEN close_position(Head(tickets), Head(cresp))
         ELSE close_position(Head(tickets), Head(cresp))
                 \o close_legs_abort(Tail(tickets), Tail(cresp))

RECURSIVE close_legs(_, _)
close_legs(tickets, cresp) ==
    IF tickets = <<>> THEN <<>>
    ELSE IF Head(tickets).kind = "" THEN close_legs(Tail(tickets), Tail(cresp))
    ELSE close_position(Head(tickets), Head(cresp))
            \o close_legs(Tail(tickets), Tail(cresp))

\* the PlaceOrder calls of the leg loop in real mode: legs 0..k-1 get the ids
\* next, next+1, ...; leg k (k < 3) answers `kind` ("none": no order id,
\* "raise": an exception) and ends the loop
PlaceCallsAll(sides, next, k, kind) ==
    [i \in 1..3 |->
        IF i = k + 1 THEN Call("PlaceOrder", i - 1, 0, kind, sides[i])
        ELSE Call("PlaceOrder", i - 1, next + i - 1, "id", sides[i])]

PlaceCalls(sides, next, k, kind) ==
    [i \in 1..(IF k < 3 THEN k + 1 ELSE 3) |->
        IF i <= k THEN Call("PlaceOrder", i - 1, next + i - 1, "id", sides[i])
        ELSE Call("PlaceOrder", i - 1, 0, kind, sides[i])]

PlacedTickets(next, k) == [i \in 1..k |-> OrderTicket(next + i - 1)]

LastCall(op, arg, slot, ret, raised, calls) ==
    [op |-> op, arg |-> arg, slot |-> slot, ret |-> ret, raised |-> raised, calls |-> calls]

\* ArbConfig.LotSize in hundredths of a lot, and CompensationLotMultiplier in
\* percent
LotSize == 10
CompensationLotMultiplier == 60

\* round(x, 2) of a lot of n / 10000; the float products of 0.1 and 0.06 that
\* calc_lots rounds lie above the tie where n does, so half rounds up
Round2(n) == (n + 50) \div 100

\* calc_lots(tri_type, direction, base_lot), lots in hundredths
calc_lots(tri_type, direction, base_lot) ==
    IF tri_type = 0 THEN <<Round2(base_lot * 100), Round2(base_lot * 95), Round2(base_lot * 102)>>
    ELSE IF tri_type = 1
         THEN <<Round2(base_lot * 100), Round2(base_lot * 105), Round2(base_lot * 98)>>
    ELSE IF tri_type = 2
         THEN <<Round2(base_lot * 100), Round2(base_lot * 100), Round2(base_lot * 90)>>
    ELSE IF tri_type >= 3
         THEN <<Round2(base_lot * 100), Round2(base_lot * 100), Round2(base_lot * 103)>>
    ELSE <<Round2(base_lot * 100), Round2(base_lot * 100), Round2(base_lot * 100)>>

\* base_lot of open_triangle: LotSize, times CompensationLotMultiplier if comp
base_lot(comp) == IF comp THEN (LotSize * CompensationLotMultiplier) \div 100 ELSE LotSize

\* the record open_triangle installs in the slot; open_time is
\* datetime.now()
NewTriangle(opp, tickets, comp, parent) ==
    [triangle_type |-> opp.triangle_type, direction |-> opp.direction,
     tickets |-> tickets, entry_prices |-> OrderPrices(opp),
     lots |-> calc_lots(opp.triangle_type, opp.direction, base_lot(comp)),
     open_time |-> Some("now"),
     active |-> TRUE, compensation |-> comp, parent_index |-> parent]

\* open_triangle(opp, comp, parent) on table tris: the table, the broker's
\* next id and the call record afterwards.  k, kind and cresp are the broker's
\* answers (see PlaceCalls; cresp answers the cancels of a rollback).
open_triangle(tris, next, paper, opp, comp, parent, k, kind, cresp) ==
    LET slot == FirstFree(tris) IN
    IF slot = None
    THEN [triangles |-> tris, next |-> next,
          last |-> LastCall("open", opp.triangle_type, None, None, "", <<>>)]
    ELSE IF ResolveSymbols(opp) = None
    THEN [triangles |-> tris, next |-> next,
          last |-> LastCall("open", opp.triangle_type, slot, None, "KeyError", <<>>)]
    ELSE IF paper
    THEN [triangles |-> [tris EXCEPT ![slot[1]] =
                NewTriangle(opp, [i \in 1..3 |-> PaperTicket(slot[1], i - 1)], comp, parent)],
          next |-> next,
          last |-> LastCall("open", opp.triangle_type, slot, slot, "", <<>>)]
    ELSE IF k < 3
    THEN [triangles |-> tris, next |-> next + k,
          last |-> LastCall("open", opp.triangle_type, slot, None, "",
                        PlaceCalls(OrderSides(opp), next, k, kind)
                            \o rollback(PlacedTickets(next, k), cresp))]
    ELSE [triangles |-> [tris EXCEPT ![slot[1]] =
                NewTriangle(opp, PlacedTickets(next, 3), comp, parent)],
          next |-> next + 3,
          last |-> LastCall("open", opp.triangle_type, slot, slot, "",
                        PlaceCalls(OrderSides(opp), next, 3, kind))]

\* close_triangle's guard: index inside the table and the slot active
ClosableAny(tris, index) == index \in DOMAIN tris

Closable(tris, index) == index \in DOMAIN tris /\ tris[index].active

\* close_triangle(index)
close_triangle(tris, index, cresp) ==
    IF ~Closable(tris, index)
    THEN [triangles |-> tris, last |-> LastCall("close", index, None, None, "", <<>>)]
    ELSE [triangles |-> [tris EXCEPT ![index].active = FALSE,
                                     ![index].compensation = FALSE],
          last |-> LastCall("close", index, Some(index), None, "",
                        close_legs(tris[index].tickets, cresp))]

\* CancelOrder calls of a call log, per order id
CancelsOf(calls, id) ==
    Cardinality({j \in DOMAIN calls : calls[j].op = "CancelOrder" /\ calls[j].id = id})


(***************************************************************************)
(* ArbitrageTrader (arbitrage_trader.py).                                  *)
(* self.triangles is a list of Triangle templates over CurrencyPair        *)
(* objects; the model takes the templates _build_multiplication_triangle   *)
(* and _build_division_triangle write for one currency triple (A, B, C)    *)
(* whose three pairs A/B, B/C, A/C are real (non-virtual) pairs.           *)
(***************************************************************************)
TraderCatalog ==
    << [pairs |-> <<"A/B", "B/C", "A/C">>, operations |-> <<"BUY", "BUY", "SELL">>,
        formula_type |-> "MUL"],
       [pairs |-> <<"A/B", "B/C", "A/C">>, operations |-> <<"SELL", "SELL", "BUY">>,
        formula_type |-> "MUL"],
       [pairs |-> <<"A/C", "A/B", "B/C">>, operations |-> <<"BUY", "SELL", "SELL">>,
        formula_type |-> "DIV"],
       [pairs |-> <<"A/C", "A/B", "B/C">>, operations |-> <<"SELL", "BUY", "BUY">>,
        formula_type |-> "DIV"] >>

TraderPairs == {"A/B", "B/C", "A/C"}

\* CurrencyPair as constructed: bid = ask = last = 0.0
NoQuote == [bid |-> 0, ask |-> 0, last |-> 0]

Abs(x) == IF x < 0 THEN -x ELSE x

\* check_spread(pair)
check_spread(pair) ==
    IF pair.ask <= 0 \/ pair.bid <= 0 THEN FALSE
    ELSE pair.ask - pair.bid <= max_spread_points

get_effective_rate_bid(pair, operation) == pair.bid

\* get_effective_rate(pair, operation), real pairs
get_effective_rate(pair, operation) == IF operation = "BUY" THEN pair.ask ELSE pair.bid

\* 1 / price of a quote in points, as a fraction of points; 0 if the price
\* is not positive
Reciprocal(price) ==
    IF price > 0 THEN [num |-> 100000000, den |-> price] ELSE [num |-> 0, den |-> 1]

\* get_effective_rate(pair, operation) for a virtual pair RUB/XXX whose real
\* pair XXX/RUB is real_pair: the side of the real quote it reads and the rate
virtual_effective_rate(real_pair, operation) ==
    IF operation = "BUY"
    THEN [side |-> "ask", rate |-> Reciprocal(real_pair.ask)]
    ELSE [side |-> "bid", rate |-> Reciprocal(real_pair.bid)]

\* execute_triangle: the price it records for a leg on a virtual pair
virtual_entry_price(real_pair, operation) ==
    IF operation = "SELL"
    THEN [side |-> "ask", rate |-> Reciprocal(real_pair.ask)]
    ELSE [side |-> "bid", rate |-> Reciprocal(real_pair.bid)]

\* execute_triangle: the order it places for a leg on a virtual pair, on
\* the symbol of the real pair
virtual_order(real_name, operation) ==
    [symbol |-> real_name, side |-> IF operation = "BUY" THEN "BUY" ELSE "SELL"]

\* find_opportunities: the quote test for a leg on a virtual pair
virtual_has_quotes(real_pair) == ~(real_pair.bid <= 0 \/ real_pair.ask <= 0)

\* calculate_triangle(triangle): deviation_points as the fraction num / den
\* (prices in points: MUL (m - r1*r2/10^4), DIV (m - 10^4*r1/r2))
calculate_triangle(cp, t) ==
    LET rate1 == get_effective_rate(cp[t.pairs[1]], t.operations[1])
        rate2 == get_effective_rate(cp[t.pairs[2]], t.operations[2])
        rate3 == get_effective_rate(cp[t.pairs[3]], t.operations[3])
    IN  IF rate1 <= 0 \/ rate2 <= 0 \/ rate3 <= 0 THEN [num |-> 0, den |-> 1]
        ELSE IF t.formula_type = "MUL"
             THEN [num |-> 10000 * rate3 - rate1 * rate2, den |-> 10000]
             ELSE [num |-> rate3 * rate2 - 10000 * rate1, den |-> rate2]

\* abs(dev) >= x for a fraction dev and an integer x
AbsGeq(dev, x) == Abs(dev.num) >= x * dev.den

\* abs(a) > abs(b) for fractions with positive denominators: the integer
\* parts decide, and if they are equal the remainders
AbsGreater(a, b) ==
    LET qa == Abs(a.num) \div a.den
        qb == Abs(b.num) \div b.den
    IN  IF qa # qb THEN qa > qb
        ELSE (Abs(a.num) % a.den) * b.den > (Abs(b.num) % b.den) * a.den

\* list.sort(key=abs(deviation), reverse=True) on entries with a field dev:
\* stable, non-increasing in abs(dev)
SortKeepsOrder(seq) == seq

RECURSIVE SortByAbsDev(_)
SortByAbsDev(seq) ==
    IF seq = <<>> THEN <<>>
    ELSE LET best == CHOOSE i \in DOMAIN seq :
                        /\ \A j \in DOMAIN seq : ~AbsGreater(seq[j].dev, seq[i].dev)
                        /\ \A j \in 1..(i - 1) : AbsGreater(seq[i].dev, seq[j].dev)
             rest == [j \in 1..(Len(seq) - 1) |-> IF j < best THEN seq[j] ELSE seq[j + 1]]
         IN  <<seq[best]>> \o SortByAbsDev(rest)

\* find_opportunities(): the templates (by index) that pass, with their
\* deviation, best first
trader_passes(cp, i) ==
    LET t == TraderCatalog[i] IN
    /\ \A j \in 1..3 : cp[t.pairs[j]].bid > 0 /\ cp[t.pairs[j]].ask > 0
    /\ \A j \in 1..3 : check_spread(cp[t.pairs[j]])
    /\ AbsGeq(calculate_triangle(cp, t), min_deviation_points)

trader_find_opportunities(cp, templates) ==
    LET passes(i) == trader_passes(cp, i)
        found == SelectSeq(templates, passes)
    IN  SortByAbsDev([n \in DOMAIN found |->
            [triangle |-> found[n], dev |-> calculate_triangle(cp, TraderCatalog[found[n]])]])

\* find_opportunities() stores the result of calculate_triangle in every
\* template it appends: triangle.deviation_points = dev_points (and, in the
\* same block, synthetic_rate, market_rate and deviation_percent, which the
\* same quotes determine).  fields is Triangle.deviation_points by template.
scan_writes_templates(cp, templates, fields) ==
    [i \in DOMAIN fields |->
        IF (\E n \in DOMAIN templates : templates[n] = i) /\ trader_passes(cp, i)
        THEN calculate_triangle(cp, TraderCatalog[i])
        ELSE fields[i]]

\* close_position(ticket) of the trader: always one CancelOrder call
trader_close_position(ticket, resp) == <<Call("CancelOrder", -1, ticket.n, resp, "")>>

RECURSIVE trader_rollback(_, _)
trader_rollback(tickets, cresp) ==
    IF tickets = <<>> THEN <<>>
    ELSE trader_close_position(Head(tickets), Head(cresp))
            \o trader_rollback(Tail(tickets), Tail(cresp))

\* the limit test at the head of execute_triangle
LimitReached(active) == Len(active) >= max_concurrent_triangles

\* execute_triangle(triangle), i the template's index
execute_triangle(active, next, cp, i, k, kind, cresp) ==
    LET t == TraderCatalog[i]
        price(j) == IF t.operations[j] = "BUY" THEN cp[t.pairs[j]].ask ELSE cp[t.pairs[j]].bid
    IN
    IF LimitReached(active)
    THEN [active |-> active, next |-> next,
          last |-> LastCall("execute", i, None, Some(FALSE), "", <<>>)]
    ELSE IF k < 3
    THEN [active |-> active, next |-> next + k,
          last |-> LastCall("execute", i, None, Some(FALSE), "",
                        PlaceCalls(t.operations, next, k, kind)
                            \o trader_rollback(PlacedTickets(next, k), cresp))]
    ELSE [active |-> Append(active,
                        [triangle |-> i, tickets |-> PlacedTickets(next, 3),
                         entry_prices |-> [j \in 1..3 |-> price(j)], age |-> 0]),
          next |-> next + 3,
          last |-> LastCall("execute", i, None, Some(TRUE), "",
                        PlaceCalls(t.operations, next, 3, kind))]


\* running profit of one leg in monitor_active_triangles: counted when
\* GetOrder answered a state and both prices are positive; lots are 0.1, so
\* (price difference) * lot * 100000 is the difference in points
LegProfit(a, cp, g, j) ==
    LET t == TraderCatalog[a.triangle]
        current_price == cp[t.pairs[j]].last
    IN  IF g[j] = "state" /\ current_price > 0 /\ a.entry_prices[j] > 0
        THEN IF t.operations[j] = "BUY"
             THEN current_price - a.entry_prices[j]
             ELSE a.entry_prices[j] - current_price
        ELSE 0

CurrentProfit(a, cp, g) ==
    LegProfit(a, cp, g, 1) + LegProfit(a, cp, g, 2) + LegProfit(a, cp, g, 3)

\* what monitor_active_triangles decides for one active triangle
MonitorVerdict(a, cp, g) ==
    IF \A j \in 1..3 : g[j] # "state" THEN "all_closed"
    ELSE IF CurrentProfit(a, cp, g) >= take_profit THEN "take_profit"
    ELSE IF CurrentProfit(a, cp, g) <= -stop_loss THEN "stop_loss"
    ELSE "keep"

RECURSIVE Concat(_)
Concat(seqs) == IF seqs = <<>> THEN <<>> ELSE Head(seqs) \o Concat(Tail(seqs))

\* monitor_active_triangles(): gresp[n] are the GetOrder answers for the
\* tickets of the n-th active triangle, cr answers the cancels
monitor_active_triangles(active, cp, gresp, cr) ==
    LET verdict(n) == MonitorVerdict(active[n], cp, gresp[n])
        keep(n) == verdict(n) = "keep"
        kept == SelectSeq([n \in DOMAIN active |-> n], keep)
    IN  [active |-> [m \in DOMAIN kept |-> active[kept[m]]],
         calls |-> Concat([n \in DOMAIN active |->
                     IF verdict(n) \in {"take_profit", "stop_loss"}
                     THEN trader_rollback(active[n].tickets, <<cr, cr, cr>>)
                     ELSE <<>>])]

trader_cleanup_abort(active, cr) ==
    LET cancels == Concat([n \in DOMAIN active |->
                       trader_rollback(active[n].tickets, <<cr, cr, cr>>)])
    IN  (IF cr = "ok" \/ cancels = <<>> THEN cancels ELSE <<cancels[1]>>)
            \o <<Call("close_channel", -1, 0, "ok", "")>>

\* cleanup(): one close_position per ticket of every active triangle, then
\* fp.close_channel()
trader_cleanup(active, cr) ==
    Concat([n \in DOMAIN active |-> trader_rollback(active[n].tickets, <<cr, cr, cr>>)])
        \o <<Call("close_channel", -1, 0, "ok", "")>>

(***************************************************************************)
(* The scanner (core/arb_calculator.py) and ArbitrageApp (run_arbitrage.py)*)
(***************************************************************************)
deviation_prices_swapped(direction, tks) ==
    IF direction = 1 THEN <<tks[1].bid, tks[2].bid, tks[3].ask>>
    ELSE <<tks[1].ask, tks[2].ask, tks[3].bid>>

\* the price calc_deviations reads from each leg: dev_buy (direction 1) is
\* computed from ticks[0].ask, ticks[1].ask, ticks[2].bid and dev_sell
\* (direction -1) from ticks[0].bid, ticks[1].bid, ticks[2].ask, for the
\* multiplication and the division formula alike
deviation_prices(direction, tks) ==
    IF direction = 1 THEN <<tks[1].ask, tks[2].ask, tks[3].bid>>
    ELSE <<tks[1].bid, tks[2].bid, tks[3].ask>>

\* calc_deviations(tri_type, ticks): (dev_buy, dev_sell, sig_type), the
\* deviations as fractions num / den of points
calc_deviations(tri_type, tks) ==
    LET buy == deviation_prices(1, tks)
        sell == deviation_prices(-1, tks)
    IN
    IF ARB_TRIANGLE_FORMULAS[tri_type + 1] = 0
    THEN [dev_buy |-> [num |-> 10000 * buy[3] - buy[1] * buy[2], den |-> 10000],
          dev_sell |-> [num |-> sell[1] * sell[2] - 10000 * sell[3], den |-> 10000],
          sig_type |-> "MUL"]
    ELSE [dev_buy |-> IF buy[1] > 0
                      THEN [num |-> 10000 * buy[3] - buy[2] * buy[1], den |-> buy[1]]
                      ELSE [num |-> 0, den |-> 1],
          dev_sell |-> IF sell[1] > 0
                       THEN [num |-> sell[2] * sell[1] - 10000 * sell[3], den |-> sell[1]]
                       ELSE [num |-> 0, den |-> 1],
          sig_type |-> "DIV"]

\* dev > x for a fraction dev and an integer x
Greater(dev, x) == dev.num > x * dev.den

check_spreads_first(tks, max_spread) == spread_points(tks[1]) <= max_spread

check_spreads(tks, max_spread) == \A j \in 1..3 : spread_points(tks[j]) <= max_spread

\* ArbMonitor.get_tick(currency): symbol = ARB_CURRENCY_PAIRS.get(currency);
\* self.ticks.get(symbol) if symbol else None
get_tick(cache, currency) ==
    IF currency \in DOMAIN ARB_CURRENCY_PAIRS
            /\ ARB_CURRENCY_PAIRS[currency] \in DOMAIN cache
    THEN Some(cache[ARB_CURRENCY_PAIRS[currency]]) ELSE None

\* ArbitrageApp.get_ticks_for_triangle(tri_type): None or the three ticks
get_ticks_for_triangle(cache, tri_type) ==
    LET cur == ARB_TRIANGLE_PAIRS[tri_type + 1] IN
    IF \A j \in 1..3 : get_tick(cache, cur[j]) # None /\ is_valid(get_tick(cache, cur[j])[1])
    THEN Some([j \in 1..3 |-> get_tick(cache, cur[j])[1]])
    ELSE None

ArbOpportunity(tri, direction, deviation, tks, sig_type) ==
    [triangle_type |-> tri, direction |-> direction, dev |-> deviation,
     ticks |-> tks, signal_type |-> sig_type]

\* the test at the head of find_opportunities
ScanGateOpen(tris) == FALSE

ScanGate(tris) == ActiveCount(tris) >= MaxTriangles

\* increasing sequence of the elements of a finite set of integers
RECURSIVE Ascending(_)
Ascending(S) == IF S = {} THEN <<>> ELSE <<Min(S)>> \o Ascending(S \ {Min(S)})

HasActiveNever(tris, tri) == FALSE

\* any(t.active and t.triangle_type == tri for t in triangles_state)
HasActive(tris, tri) == \E i \in DOMAIN tris : tris[i].active /\ tris[i].triangle_type = tri

\* find_opportunities(triangles_state, get_ticks_func, config)
find_opportunities(tris, cache) ==
    IF ScanGate(tris) THEN <<>>
    ELSE
    LET ticksOf(tri) == get_ticks_for_triangle(cache, tri)
        devs(tri) == calc_deviations(tri, ticksOf(tri)[1])
        scanned(tri) ==
            /\ ~HasActive(tris, tri)
            /\ ticksOf(tri) # None
            /\ \A j \in 1..3 : is_valid(ticksOf(tri)[1][j])
            /\ check_spreads(ticksOf(tri)[1], MaxSpread)
        accepted(tri) ==
            scanned(tri) /\ (Greater(devs(tri).dev_buy, MinDeviation)
                                \/ Greater(devs(tri).dev_sell, MinDeviation))
        found == SelectSeq(Ascending(0..(Len(ARB_TRIANGLE_PAIRS) - 1)), accepted)
    IN  SortByAbsDev([n \in DOMAIN found |->
            IF Greater(devs(found[n]).dev_buy, MinDeviation)
            THEN ArbOpportunity(found[n], 1, devs(found[n]).dev_buy,
                                ticksOf(found[n])[1], devs(found[n]).sig_type)
            ELSE ArbOpportunity(found[n], -1, devs(found[n]).dev_sell,
                                ticksOf(found[n])[1], devs(found[n]).sig_type)])


(***************************************************************************)
(* ArbMonitor (core/arb_monitor.py).  A Decimal's value string is <<>> for *)
(* the empty string and <<n>> for a numeral: n points for a price, n       *)
(* tenths for a volume.                                                    *)
(***************************************************************************)
\* float(v) if v else 0
ToFloat(v) == IF v = <<>> THEN 0 ELSE v[1]

\* int(float(v)) if v else 0, v in tenths
ToInt(v) == IF v = <<>> THEN 0 ELSE v[1] \div 10

\* the ArbTick _handler builds from a quote of the stream
HandlerTick(q) ==
    [symbol |-> q.symbol, bid |-> ToFloat(q.bid), ask |-> ToFloat(q.ask),
     last |-> ToFloat(q.last), volume |-> ToInt(q.volume)]

\* what _handler does, in order: a cache write of quote number quote of the
\* message, or a call of callback number cb for it with the call's outcome
StoreEvent(quote, symbol) ==
    [ev |-> "store", quote |-> quote, symbol |-> symbol, cb |-> 0, outcome |-> "ok"]
CallbackEvent(quote, symbol, cb, outcome) ==
    [ev |-> "cb", quote |-> quote, symbol |-> symbol, cb |-> cb, outcome |-> outcome]

\* the callback loop without its try/except: the first exception leaves the loop
RECURSIVE run_callbacks_uncaught(_, _, _, _)
run_callbacks_uncaught(cbs, quote, symbol, k) ==
    IF k > Len(cbs) THEN <<>>
    ELSE IF cbs[k] = "raise" THEN <<CallbackEvent(quote, symbol, k, "raise")>>
    ELSE <<CallbackEvent(quote, symbol, k, "ok")>>
             \o run_callbacks_uncaught(cbs, quote, symbol, k + 1)

\* for cb in self.callbacks: try: cb(symbol, tick) except Exception: log;
\* the calls of callbacks k, k+1, ... for one quote
RECURSIVE run_callbacks(_, _, _, _)
run_callbacks(cbs, quote, symbol, k) ==
    IF k > Len(cbs) THEN <<>>
    ELSE <<CallbackEvent(quote, symbol, k, cbs[k])>>
             \o run_callbacks(cbs, quote, symbol, k + 1)

\* _handler from quote number i of the message on: per quote the tick is
\* stored, updates grows by one, and then every callback is called
RECURSIVE handler_from(_, _, _, _)
handler_from(msg, cbs, i, st) ==
    IF i > Len(msg) THEN st
    ELSE LET tick == HandlerTick(msg[i])
             stored == [s \in DOMAIN st.ticks \cup {tick.symbol} |->
                          IF s = tick.symbol THEN tick ELSE st.ticks[s]]
         IN  handler_from(msg, cbs, i + 1,
                 [ticks |-> stored,
                  updates |-> st.updates + 1,
                  events |-> (st.events \o <<StoreEvent(i, tick.symbol)>>)
                               \o run_callbacks(cbs, i, tick.symbol, 1)])

handler(msg, cbs) ==
    handler_from(msg, cbs, 1, [ticks |-> <<>>, updates |-> 0, events |-> <<>>])

StoreInPlace(objs, cache, tick) ==
    IF tick.symbol \in DOMAIN cache
    THEN [objects |-> [objs EXCEPT ![cache[tick.symbol]] = tick], ticks |-> cache]
    ELSE [objects |-> Append(objs, tick),
          ticks |-> [s \in DOMAIN cache \cup {tick.symbol} |->
                        IF s = tick.symbol THEN Len(objs) + 1 ELSE cache[s]]]

StoreMerged(objs, cache, tick) ==
    LET old == IF tick.symbol \in DOMAIN cache THEN objs[cache[tick.symbol]] ELSE tick
        merged == [tick EXCEPT !.bid = IF @ = 0 THEN old.bid ELSE @,
                               !.ask = IF @ = 0 THEN old.ask ELSE @,
                               !.last = IF @ = 0 THEN old.last ELSE @,
                               !.volume = IF @ = 0 THEN old.volume ELSE @]
    IN  [objects |-> Append(objs, merged),
         ticks |-> [s \in DOMAIN cache \cup {tick.symbol} |->
                       IF s = tick.symbol THEN Len(objs) + 1 ELSE cache[s]]]

\* self.ticks[symbol] = tick: the cache refers to the new object
StoreTick(objs, cache, tick) ==
    [objects |-> Append(objs, tick),
     ticks |-> [s \in DOMAIN cache \cup {tick.symbol} |->
                   IF s = tick.symbol THEN Len(objs) + 1 ELSE cache[s]]]

\* the fields of a tick in the order a reader takes them
TickFields(t) == <<t.bid, t.ask, t.last, t.volume>>

(***************************************************************************)
(* The catalog builders (build_all_triangles of ArbitrageFinder and of     *)
(* ArbitrageTrader) and ArbitrageFinder's scan (arbitrage_finder.py).  A   *)
(* pair is <<base_currency, quote_currency>>; a template holds its three   *)
(* pairs, its operations and its formula type.                             *)
(***************************************************************************)
\* ArbitrageFinder's constructor defaults
finder_min_deviation_points == 2
finder_max_spread_points == 3

\* CurrencyPair.name
PairName(p) == p[1] \o "/" \o p[2]

LexLess(a, b) ==
    \/ a[1] < b[1]
    \/ a[1] = b[1] /\ a[2] < b[2]
    \/ a[1] = b[1] /\ a[2] = b[2] /\ a[3] < b[3]

RECURSIVE LexSeq(_)
LexSeq(S) ==
    IF S = {} THEN <<>>
    ELSE LET m == CHOOSE t \in S : \A u \in S \ {t} : LexLess(t, u)
         IN  <<m>> \o LexSeq(S \ {m})

\* itertools.combinations(list, 3): the triples of the list in the order
\* combinations yields them
combinations(list) ==
    LET n == Len(list)
        idx == LexSeq({t \in (1..n) \X (1..n) \X (1..n) : t[1] < t[2] /\ t[2] < t[3]})
    IN  [m \in DOMAIN idx |-> <<list[idx[m][1]], list[idx[m][2]], list[idx[m][3]]>>]

Template(p1, p2, p3, ops, formula) ==
    [pairs |-> <<p1[1], p2[1], p3[1]>>, operations |-> ops, formula_type |-> formula]

\* ArbitrageFinder.find_pair(base, quote)
finder_find_pair(pairs, base, quote) ==
    IF <<base, quote>> \in pairs THEN Some(<<base, quote>>) ELSE None

\* the third pair the finder's division triangle looks up
finder_div_third_swapped(pairs, c) == finder_find_pair(pairs, c[2], c[3])

finder_div_third(pairs, c) == finder_find_pair(pairs, c[3], c[2])

\* the body of the loop of ArbitrageFinder.build_all_triangles for one triple
finder_triple(pairs, c) ==
    LET m1 == finder_find_pair(pairs, c[1], c[2])
        m2 == finder_find_pair(pairs, c[2], c[3])
        m3 == finder_find_pair(pairs, c[1], c[3])
        d1 == finder_find_pair(pairs, c[1], c[2])
        d2 == finder_find_pair(pairs, c[1], c[3])
        d3 == finder_div_third(pairs, c)
    IN  (IF m1 # None /\ m2 # None /\ m3 # None
         THEN <<Template(m1, m2, m3, <<"BUY", "BUY", "SELL">>, "MUL"),
                Template(m1, m2, m3, <<"SELL", "SELL", "BUY">>, "MUL")>>
         ELSE <<>>)
        \o
        (IF d1 # None /\ d2 # None /\ d3 # None
         THEN <<Template(d1, d2, d3, <<"BUY", "SELL", "SELL">>, "DIV"),
                Template(d1, d2, d3, <<"SELL", "BUY", "BUY">>, "DIV")>>
         ELSE <<>>)

\* ArbitrageFinder.build_all_triangles()
finder_build_all_triangles(currencies, pairs) ==
    LET cs == combinations(currencies)
    IN  Concat([m \in DOMAIN cs |-> finder_triple(pairs, cs[m])])

trader_find_pair_cross(pairs, base, quote) == Some(<<base, quote>>)

\* ArbitrageTrader._find_pair(base, quote): a real pair base/RUB, or the
\* virtual pair RUB/quote if quote/RUB is a real pair
trader_find_pair(pairs, base, quote) ==
    IF quote = "RUB"
    THEN IF <<base, "RUB">> \in pairs THEN Some(<<base, "RUB">>) ELSE None
    ELSE IF base = "RUB"
    THEN IF <<quote, "RUB">> \in pairs THEN Some(<<"RUB", quote>>) ELSE None
    ELSE None

\* _build_multiplication_triangle and _build_division_triangle for one triple
trader_triple(pairs, c) ==
    LET ab == trader_find_pair(pairs, c[1], c[2])
        bc == trader_find_pair(pairs, c[2], c[3])
        ac == trader_find_pair(pairs, c[1], c[3])
    IN  (IF ab # None /\ bc # None /\ ac # None
         THEN <<Template(ab, bc, ac, <<"BUY", "BUY", "SELL">>, "MUL"),
                Template(ab, bc, ac, <<"SELL", "SELL", "BUY">>, "MUL")>>
         ELSE <<>>)
        \o
        (IF ac # None /\ ab # None /\ bc # None
         THEN <<Template(ac, ab, bc, <<"BUY", "SELL", "SELL">>, "DIV"),
                Template(ac, ab, bc, <<"SELL", "BUY", "BUY">>, "DIV")>>
         ELSE <<>>)

\* the trader's pairs are those init_currency_pairs creates: code/RUB
TraderUniverse(pairs) == {p \in pairs : p[2] = "RUB" /\ p[1] # "RUB"}

\* ArbitrageTrader.build_all_triangles(): the base currencies in the order
\* of the set, then RUB
trader_build_all_triangles(order, pairs) ==
    LET isBase(c) == \E p \in pairs : p[1] = c
        cs == combinations(SelectSeq(order, isBase) \o <<"RUB">>)
    IN  Concat([m \in DOMAIN cs |-> trader_triple(pairs, cs[m])])

\* ArbitrageFinder.check_spread(pair)
finder_check_spread(pair) ==
    IF pair.ask <= 0 \/ pair.bid <= 0 THEN FALSE
    ELSE pair.ask - pair.bid <= finder_max_spread_points

\* ArbitrageFinder.calculate_triangle_rate(triangle): deviation_points as a
\* fraction; cp maps a pair's name to its quote
calculate_triangle_rate(cp, t) ==
    LET p1 == cp[PairName(t.pairs[1])]
        p2 == cp[PairName(t.pairs[2])]
        p3 == cp[PairName(t.pairs[3])]
        zero == [num |-> 0, den |-> 1]
    IN  IF t.formula_type = "MUL"
        THEN IF t.operations[1] = "BUY" /\ t.operations[2] = "BUY"
             THEN IF p3.bid > 0 /\ p1.ask * p2.ask > 0
                  THEN [num |-> 10000 * p3.bid - p1.ask * p2.ask, den |-> 10000]
                  ELSE zero
             ELSE IF p3.ask > 0 /\ p1.bid * p2.bid > 0
                  THEN [num |-> 10000 * p3.ask - p1.bid * p2.bid, den |-> 10000]
                  ELSE zero
        ELSE IF t.operations[1] = "BUY" /\ t.operations[2] = "SELL"
             THEN IF p3.bid > 0 /\ p2.bid > 0 /\ p1.ask > 0
                  THEN [num |-> p3.bid * p2.bid - 10000 * p1.ask, den |-> p2.bid]
                  ELSE zero
             ELSE IF p3.ask > 0 /\ p2.ask > 0 /\ p1.bid > 0
                  THEN [num |-> p3.ask * p2.ask - 10000 * p1.bid, den |-> p2.ask]
                  ELSE zero

\* ArbitrageFinder.find_arbitrage_opportunities(): the templates (by index
\* in self.triangles) that pass, with their deviation, best first
finder_passes(cp, t) ==
    /\ \A j \in 1..3 : cp[PairName(t.pairs[j])].bid > 0
                       /\ cp[PairName(t.pairs[j])].ask > 0
    /\ \A j \in 1..3 : finder_check_spread(cp[PairName(t.pairs[j])])
    /\ AbsGeq(calculate_triangle_rate(cp, t), finder_min_deviation_points)

\* find_arbitrage_opportunities() stores the result of calculate_triangle_rate
\* in every template it appends: triangle.deviation = deviation (and, in the
\* same block, synthetic_rate and market_rate).  fields is Triangle.deviation
\* by template.
finder_writes_templates(cp, tris, fields) ==
    [i \in DOMAIN fields |->
        IF finder_passes(cp, tris[i]) THEN calculate_triangle_rate(cp, tris[i])
        ELSE fields[i]]

find_arbitrage_opportunities(cp, tris) ==
    LET passes(i) == finder_passes(cp, tris[i])
        found == SelectSeq([i \in DOMAIN tris |-> i], passes)
    IN  SortByAbsDev([n \in DOMAIN found |->
            [triangle |-> found[n], dev |-> calculate_triangle_rate(cp, tris[found[n]])]])

(***************************************************************************)
(* Inputs: what callers, the broker and the quote stream may supply.       *)
(***************************************************************************)
\* a symbol string without '@' (a bare currency code) and an instrument symbol
CodeSymbol(code) == [head |-> code, board |-> ""]

\* opportunities handed to open_triangle by a caller: a BUY signal of the
\* multiplication type and a SELL signal of the division type, as the scanner
\* builds them; the ticks carry either the bare currency code or the
\* instrument symbol of the cache
ApiOpps ==
    {ArbOpportunity(t, IF ARB_TRIANGLE_FORMULAS[t + 1] = 0 THEN 1 ELSE -1,
        [num |-> 3, den |-> 1],
        [j \in 1..3 |-> ArbTick(IF form = "code"
                                THEN CodeSymbol(ARB_TRIANGLE_PAIRS[t + 1][j])
                                ELSE ARB_CURRENCY_PAIRS[ARB_TRIANGLE_PAIRS[t + 1][j]],
                                100, 101, 100)],
        IF ARB_TRIANGLE_FORMULAS[t + 1] = 0 THEN "MUL" ELSE "DIV") :
     t \in TypeIds, form \in {"code", "instrument"}}

\* the broker's answers to the leg loop: the first failing leg k (3: none),
\* how it fails, and the answers to the cancels of the rollback
Outcomes ==
    {<<3, "id", <<>>>>} \cup
    {<<k, kind, cresp>> : k \in 0..2, kind \in {"none", "raise"},
                          cresp \in UNION {[1..n -> Responses] : n \in 0..2}}

BrokerOutcomes == {o \in Outcomes : Len(o[3]) = IF o[1] < 3 THEN o[1] ELSE 0}

\* the answers open_triangle consumes: none when it returns or raises before
\* the leg loop, or trades on paper
OpenAnswers(tris, paper, opp) ==
    IF FirstFree(tris) = None \/ ResolveSymbols(opp) = None \/ paper
    THEN {<<3, "id", <<>>>>} ELSE BrokerOutcomes

\* the answers close_triangle consumes: one per ticket of an active slot
CloseAnswers(tris, index) ==
    IF index \in DOMAIN tris /\ tris[index].active
            /\ \E j \in 1..3 : tris[index].tickets[j].kind = "ORD"
    THEN [1..3 -> Responses] ELSE {<<"ok", "ok", "ok">>}

\* currencies of the scanned triangle types and the ticks the cache may hold
ScanCurrencies == UNION {{ARB_TRIANGLE_PAIRS[t + 1][j] : j \in 1..3} : t \in TypeIds}

TickChoices(code) ==
    IF code = "USD"
    THEN {ArbTick(ARB_CURRENCY_PAIRS[code], 9000, 9001, 9000),
          ArbTick(ARB_CURRENCY_PAIRS[code], 11000, 11001, 11000),
          ArbTick(ARB_CURRENCY_PAIRS[code], 10000, 10001, 10000),
          ArbTick(ARB_CURRENCY_PAIRS[code], 9000, 9005, 9000),
          ArbTick(ARB_CURRENCY_PAIRS[code], 9000, 9001, 0)}
    ELSE {ArbTick(ARB_CURRENCY_PAIRS[code], 100, 100, 100)}

\* the caches (symbol -> tick) the stream may have left behind
Caches ==
    UNION {{c \in [{ARB_CURRENCY_PAIRS[code] : code \in present} ->
                      UNION {TickChoices(code) : code \in present}] :
               \A sym \in DOMAIN c : c[sym].symbol = sym} :
           present \in SUBSET ScanCurrencies}

\* the ticks a snapshot put to find_opportunities may hold: those of the
\* caches, a USD tick that puts the deviation of type 0 at exactly
\* MinDeviation, USD ticks without bid or ask, and a EUR tick at which
\* types 0 and 3 deviate alike
SnapshotTicks(code) ==
    TickChoices(code) \cup
    (IF code = "USD"
     THEN {ArbTick(ARB_CURRENCY_PAIRS[code], 9799, 9800, 9799),
           ArbTick(ARB_CURRENCY_PAIRS[code], 0, 9001, 9000),
           ArbTick(ARB_CURRENCY_PAIRS[code], 9000, 0, 9000)}
     ELSE {ArbTick(ARB_CURRENCY_PAIRS[code], 10000, 10000, 10000)})

\* slot tables a scan may meet: the first n slots active with triangles of
\* one type
ScanTables ==
    {[i \in SlotIds |-> IF i < n
                        THEN [DefaultTriangle EXCEPT !.active = TRUE, !.triangle_type = ty]
                        ELSE DefaultTriangle] :
     n \in 0..NumSlots, ty \in TypeIds}

\* the quotes the stream may deliver to ArbMonitor
StreamQuotes ==
    {[symbol |-> ARB_CURRENCY_PAIRS["USD"], bid |-> <<1>>, ask |-> <<1>>,
      last |-> <<1>>, volume |-> <<15>>],
     [symbol |-> ARB_CURRENCY_PAIRS["USD"], bid |-> <<2>>, ask |-> <<>>,
      last |-> <<2>>, volume |-> <<>>],
     [symbol |-> ARB_CURRENCY_PAIRS["EUR"], bid |-> <<3>>, ask |-> <<3>>,
      last |-> <<3>>, volume |-> <<30>>]}

\* a message of the stream carries one or two quotes
StreamMessages == {<<q>> : q \in StreamQuotes} \cup
                  {<<q1, q2>> : q1 \in StreamQuotes, q2 \in StreamQuotes}

ReaderCurrencies == {"USD", "EUR", "RUB"}

\* quotes the stream may deliver to the trader
TraderQuotes(pair) ==
    IF pair = "A/B" THEN {[bid |-> 100, ask |-> 100, last |-> 100],
                          [bid |-> 100, ask |-> 100, last |-> 600]}
    ELSE IF pair = "B/C" THEN {[bid |-> 200, ask |-> 200, last |-> 200]}
    ELSE {[bid |-> 2, ask |-> 2, last |-> 2], [bid |-> 5, ask |-> 5, last |-> 5],
          [bid |-> 5, ask |-> 6, last |-> 5], [bid |-> 2, ask |-> 6, last |-> 2]}

\* the pair universe of the trader's and the finder's scans in the model:
\* one currency triple with its three real pairs
RatePairs == {<<"A", "B">>, <<"B", "C">>, <<"A", "C">>}

\* points in one kopeck (0.01 / POINT)
KopeckPoints == 100

\* the quotes of the worked example, EUR/USD as A/B in points, USD/RUB as
\* B/C and EUR/RUB as A/C in kopecks
ExampleQuote(pair) ==
    IF pair = "A/B" THEN [bid |-> 10695, ask |-> 10705, last |-> 10700]
    ELSE IF pair = "B/C" THEN [bid |-> 7950, ask |-> 7952, last |-> 7951]
    ELSE [bid |-> 8510, ask |-> 8514, last |-> 8512]

\* quotes a snapshot put to the scans may hold
RateQuotes(pair) ==
    {q \in TraderQuotes(pair) : q.last = q.bid} \cup {ExampleQuote(pair)} \cup
    (IF pair = "A/B" THEN {[bid |-> 0, ask |-> 100, last |-> 0]} ELSE {})

\* the orders in which a set of currencies may be iterated
Orders(S) == {o \in [1..Cardinality(S) -> S] : \A i, j \in DOMAIN o : i # j => o[i] # o[j]}

\* currencies and pair universes the catalog builders are run on
CatalogCurrencies == {"USD", "EUR", "RUB"}

Universes == SUBSET {p \in CatalogCurrencies \X CatalogCurrencies : p[1] # p[2]}

\* quotes of the pairs over the catalog currencies when the finder scans the
\* catalog it built
CatalogQuotes ==
    [name \in {PairName(p) : p \in CatalogCurrencies \X CatalogCurrencies} |->
        [bid |-> 100, ask |-> 100, last |-> 100]]

\* the three ticks calc_deviations gets for the pairs B/C, A/B, A/C
RateTicks(cp) ==
    [j \in 1..3 |->
        LET name == <<"B/C", "A/B", "A/C">>[j]
        IN  ArbTick(CodeSymbol(name), cp[name].bid, cp[name].ask, cp[name].last)]

\* the pair on_quote and the control loop share in the model, and the
\* quotes the stream delivers for it
StreamPair == "A/B"

PairQuotes == {[bid |-> 100, ask |-> 101, last |-> 100],
               [bid |-> 102, ask |-> 103, last |-> 102]}

\* the attributes of a pair in the order on_quote assigns them, and in the
\* order check_spread reads them
WriteOrder == <<"bid", "ask", "last">>

ReadOrder == <<"ask", "bid">>

\* GetOrder per ticket: an order state, or nothing ("fail": a falsy result or
\* an exception, which monitor_active_triangles treats alike)
GetOrderAnswers == [1..3 -> {"state", "fail"}]

\* the answers to the cancels of monitor_active_triangles: none is consumed
\* unless a triangle reaches its take-profit or stop-loss
MonitorCancelAnswers(active, cp, gresp) ==
    IF \E n \in DOMAIN active :
          MonitorVerdict(active[n], cp, gresp[n]) \in {"take_profit", "stop_loss"}
    THEN Responses ELSE {"ok"}

(***************************************************************************)
(* Initial state.                                                          *)
(***************************************************************************)
Programs == {"app", "trader", "monitor", "scanner", "rates", "catalog", "stream", "feed", "dispatch"}

Init ==
    /\ program \in Programs
    /\ PaperTrading \in (IF program = "app" THEN BOOLEAN ELSE {FALSE})
    /\ triangles \in (IF program = "scanner" THEN ScanTables
                      ELSE {[i \in SlotIds |-> DefaultTriangle]})
    /\ nextOrder = 1
    /\ closeCancels = [id \in OrderIds |-> 0]
    /\ last = LastCall("init", -1, None, None, "", <<>>)
    /\ app = "running"
    /\ currency_pairs = [pair \in TraderPairs |-> NoQuote]
    /\ active_triangles = <<>>
    /\ tpc = "scan"
    /\ deviation_points = [i \in DOMAIN TraderCatalog |-> [num |-> 0, den |-> 1]]
    /\ ticks = <<>>
    /\ objects = <<>>
    /\ updates = 0
    /\ hq = <<>>
    /\ h_tick = None
    /\ received = <<>>
    /\ latest = <<>>
    /\ r_cur = "USD"
    /\ r_ref = None
    /\ r_vals = <<>>
    /\ snapshot = <<>>
    /\ f_pairs \in (IF program = "rates" THEN {RatePairs}
                    ELSE IF program = "catalog" THEN Universes ELSE {{}})
    /\ f_currencies \in (IF program = "rates" THEN Orders({"A", "B", "C"})
                         ELSE IF program = "catalog" THEN Orders(CatalogCurrencies)
                         ELSE {<<>>})
    /\ f_triangles = (IF program = "rates"
                      THEN finder_build_all_triangles(f_currencies, f_pairs) ELSE <<>>)
    /\ t_triangles = <<>>
    /\ f_deviation = [i \in DOMAIN f_triangles |-> [num |-> 0, den |-> 1]]
    /\ built = (IF program = "rates" THEN {"finder"} ELSE {})
    /\ q_new = None
    /\ q_pc = 0
    /\ q_seen = <<>>
    /\ q_read = <<>>
    /\ m_running = FALSE
    /\ m_subscribed = 0
    /\ m_threads = 0
    /\ m_quotes = 0
    /\ m_updates = 0
    /\ callbacks = <<>>

monitorVars == <<ticks, objects, updates, hq, h_tick, received, latest, r_cur, r_ref, r_vals>>
traderVars == <<currency_pairs, active_triangles, tpc, deviation_points>>
appVars == <<PaperTrading, triangles, closeCancels, app, snapshot>>
finderVars == <<f_pairs, f_currencies, f_triangles, t_triangles, f_deviation, built>>
streamVars == <<q_new, q_pc, q_seen, q_read>>
feedVars == <<m_running, m_subscribed, m_threads, m_quotes, m_updates, callbacks>>

(***************************************************************************)
(* ArbitrageApp / ArbExecutor actions.                                     *)
(***************************************************************************)
\* a caller runs executor.open_triangle(opp), comp and parent at their defaults
OpenTriangle ==
    /\ program = "app" /\ app = "running"
    /\ PaperTrading \/ nextOrder + 2 <= MaxOrders
    /\ \E opp \in ApiOpps : \E o \in OpenAnswers(triangles, PaperTrading, opp) :
         LET r == open_triangle(triangles, nextOrder, PaperTrading, opp,
                                FALSE, -1, o[1], o[2], o[3])
         IN  /\ triangles' = r.triangles
             /\ nextOrder' = r.next
             /\ last' = r.last
    /\ UNCHANGED <<program, PaperTrading, closeCancels, app, traderVars, monitorVars, snapshot, finderVars, streamVars, feedVars>>

\* a caller runs executor.close_triangle(index)
CloseTriangle ==
    /\ program = "app" /\ app = "running"
    /\ \E index \in 0..NumSlots : \E cresp \in CloseAnswers(triangles, index) :
         LET r == close_triangle(triangles, index, cresp)
         IN  /\ triangles' = r.triangles
             /\ last' = r.last
             /\ closeCancels' =
                    [id \in OrderIds |-> closeCancels[id] + CancelsOf(r.last.calls, id)]
    /\ UNCHANGED <<program, PaperTrading, nextOrder, app, traderVars, monitorVars, snapshot, finderVars, streamVars, feedVars>>

\* one scanning iteration of ArbitrageApp.run over the cache as the stream
\* has left it; an exception of open_triangle leaves the loop through
\* `finally: self.stop()`
RunTick ==
    /\ program = "app" /\ app = "running"
    /\ PaperTrading \/ nextOrder + 2 <= MaxOrders
    /\ \E cache \in Caches :
         LET opportunities == find_opportunities(triangles, cache)
         IN  IF opportunities # <<>> /\ AbsGeq(opportunities[1].dev, MinDeviation)
             THEN \E o \in OpenAnswers(triangles, PaperTrading, opportunities[1]) :
                  LET r == open_triangle(triangles, nextOrder, PaperTrading,
                                         opportunities[1], FALSE, -1, o[1], o[2], o[3])
                  IN  /\ triangles' = r.triangles
                      /\ nextOrder' = r.next
                      /\ last' = [r.last EXCEPT !.op = "run_open"]
                      /\ app' = IF r.last.raised # "" THEN "stopped" ELSE app
             ELSE /\ last' = LastCall("run_scan", Len(opportunities), None, None, "", <<>>)
                  /\ UNCHANGED <<triangles, nextOrder, app>>
    /\ UNCHANGED <<program, PaperTrading, closeCancels, traderVars, monitorVars, snapshot, finderVars, streamVars, feedVars>>

\* KeyboardInterrupt in run: stop() stops the monitor and disconnects
AppStop ==
    /\ program = "app" /\ app = "running"
    /\ app' = "stopped"
    /\ last' = LastCall("stop", -1, None, None, "", <<Call("disconnect", -1, 0, "ok", "")>>)
    /\ UNCHANGED <<program, PaperTrading, triangles, nextOrder, closeCancels, traderVars, monitorVars, snapshot, finderVars, streamVars, feedVars>>

(***************************************************************************)
(* ArbitrageTrader actions.                                                *)
(***************************************************************************)
\* on_quote stores one quote of the stream
OnQuote ==
    /\ program = "trader" /\ tpc # "done"
    /\ \E pair \in TraderPairs : \E q \in TraderQuotes(pair) :
         currency_pairs' = [currency_pairs EXCEPT ![pair] = q]
    /\ UNCHANGED <<program, nextOrder, last, active_triangles, tpc, deviation_points,
                   appVars, monitorVars, finderVars, streamVars, feedVars>>

\* run: the scanning part of one loop iteration; the scan is due every 3
\* seconds of a loop that sleeps 1 second
TraderScan ==
    /\ program = "trader" /\ tpc = "scan"
    /\ tpc' = "monitor"
    /\ \E due \in (IF LimitReached(active_triangles) \/ nextOrder + 2 <= MaxOrders
                   THEN BOOLEAN ELSE {FALSE}) :
         \E o \in (IF LimitReached(active_triangles) THEN {<<3, "id", <<>>>>}
                   ELSE BrokerOutcomes) :
         LET opportunities ==
                 trader_find_opportunities(currency_pairs, [n \in 1..NumTemplates |-> n])
             r == execute_triangle(active_triangles, nextOrder, currency_pairs,
                                   opportunities[1].triangle, o[1], o[2], o[3])
         IN  /\ IF due /\ opportunities # <<>>
                       /\ AbsGeq(opportunities[1].dev, min_deviation_points)
                THEN /\ active_triangles' = r.active
                     /\ nextOrder' = r.next
                     /\ last' = r.last
                ELSE /\ last' = LastCall("scan", IF due THEN Len(opportunities) ELSE -1,
                                         None, None, "", <<>>)
                     /\ UNCHANGED <<active_triangles, nextOrder>>
             /\ deviation_points' =
                    IF due
                    THEN scan_writes_templates(currency_pairs,
                                               [n \in 1..NumTemplates |-> n], deviation_points)
                    ELSE deviation_points
    /\ UNCHANGED <<program, currency_pairs, appVars, monitorVars, finderVars, streamVars, feedVars>>

\* run: monitor_active_triangles, then time.sleep(1)
TraderMonitor ==
    /\ program = "trader" /\ tpc = "monitor"
    /\ tpc' = "scan"
    /\ \E gresp \in [1..Len(active_triangles) -> GetOrderAnswers] :
       \E cr \in MonitorCancelAnswers(active_triangles, currency_pairs, gresp) :
         LET m == monitor_active_triangles(active_triangles, currency_pairs, gresp, cr)
         IN  /\ active_triangles' =
                    [n \in DOMAIN m.active |->
                        [m.active[n] EXCEPT !.age = IF @ < HoldTicks THEN @ + 1 ELSE @]]
             /\ last' = LastCall("monitor", -1, None, None, "", m.calls)
    /\ UNCHANGED <<program, nextOrder, currency_pairs, deviation_points,
                   appVars, monitorVars, finderVars, streamVars, feedVars>>

\* KeyboardInterrupt in run: cleanup()
TraderCleanup ==
    /\ program = "trader" /\ tpc # "done"
    /\ tpc' = "done"
    /\ \E cr \in Responses :
         last' = LastCall("cleanup", -1, None, None, "", trader_cleanup(active_triangles, cr))
    /\ UNCHANGED <<program, nextOrder, currency_pairs, active_triangles, deviation_points,
                   appVars, monitorVars, finderVars, streamVars, feedVars>>

(***************************************************************************)
(* ArbMonitor: the stream thread runs _handler, the control loop reads.    *)
(***************************************************************************)
\* _handler is called with a message; (also) the loop head takes the next
\* quote of the message and builds its ArbTick
HandlerTake ==
    /\ program = "monitor" /\ h_tick = None
    /\ \E msg \in (IF hq = <<>> THEN {m \in StreamMessages :
                                        Len(received) + Len(m) <= MaxUpdates}
                   ELSE {hq}) :
         /\ h_tick' = Some(HandlerTick(Head(msg)))
         /\ hq' = Tail(msg)
         /\ received' = Append(received, Head(msg))
         /\ latest' = [s \in DOMAIN latest \cup {Head(msg).symbol} |->
                          IF s = Head(msg).symbol THEN Head(msg) ELSE latest[s]]
    /\ UNCHANGED <<program, nextOrder, last, appVars, traderVars,
                   ticks, objects, updates, r_cur, r_ref, r_vals, finderVars, streamVars, feedVars>>

\* self.ticks[symbol] = tick; self.updates += 1
HandlerStore ==
    /\ program = "monitor" /\ h_tick # None
    /\ LET r == StoreTick(objects, ticks, h_tick[1])
       IN  /\ objects' = r.objects
           /\ ticks' = r.ticks
    /\ updates' = updates + 1
    /\ h_tick' = None
    /\ UNCHANGED <<program, nextOrder, last, appVars, traderVars,
                   hq, received, latest, r_cur, r_ref, r_vals, finderVars, streamVars, feedVars>>

\* the control loop calls get_tick(currency)
ReaderGetTick ==
    /\ program = "monitor"
    /\ \E currency \in ReaderCurrencies :
         /\ r_cur' = currency
         /\ r_ref' = get_tick(ticks, currency)
    /\ r_vals' = <<>>
    /\ UNCHANGED <<program, nextOrder, last, appVars, traderVars,
                   ticks, objects, updates, hq, h_tick, received, latest, finderVars, streamVars, feedVars>>

\* the control loop reads the next field of the tick it was given
ReaderReadField ==
    /\ program = "monitor" /\ r_ref # None /\ Len(r_vals) < 4
    /\ r_vals' = Append(r_vals, TickFields(objects[r_ref[1]])[Len(r_vals) + 1])
    /\ UNCHANGED <<program, nextOrder, last, appVars, traderVars,
                   ticks, objects, updates, hq, h_tick, received, latest, r_cur, r_ref, finderVars, streamVars, feedVars>>

(***************************************************************************)
(* The calculator's scanner on its own: quotes arrive in the snapshot and  *)
(* find_opportunities is applied to the slot table and the snapshot.       *)
(***************************************************************************)
\* a tick of one currency enters the snapshot
ScanQuote ==
    /\ program = "scanner"
    /\ \E code \in ScanCurrencies : \E t \in SnapshotTicks(code) :
         snapshot' = [sym \in DOMAIN snapshot \cup {t.symbol} |->
                         IF sym = t.symbol THEN t ELSE snapshot[sym]]
    /\ last' = LastCall("quote", -1, None, None, "", <<>>)
    /\ UNCHANGED <<program, nextOrder, PaperTrading, triangles, closeCancels, app,
                   traderVars, monitorVars, finderVars, streamVars, feedVars>>

\* find_opportunities(executor.triangles, get_ticks_for_triangle, config)
ScanFind ==
    /\ program = "scanner"
    /\ last' = LastCall("find", -1, None, Some(find_opportunities(triangles, snapshot)),
                        "", <<>>)
    /\ UNCHANGED <<program, nextOrder, appVars, traderVars, monitorVars, finderVars, streamVars, feedVars>>

(***************************************************************************)
(* The scans of ArbitrageTrader and ArbitrageFinder on their own: quotes   *)
(* arrive in currency_pairs and the scans and rate calculations are        *)
(* applied to the snapshot.                                                *)
(***************************************************************************)
RatesQuote ==
    /\ program = "rates"
    /\ \E pair \in TraderPairs : \E q \in RateQuotes(pair) :
         currency_pairs' = [currency_pairs EXCEPT ![pair] = q]
    /\ last' = LastCall("quote", -1, None, None, "", <<>>)
    /\ UNCHANGED <<program, nextOrder, active_triangles, tpc, deviation_points, appVars, monitorVars,
                   finderVars, streamVars, feedVars>>

\* ArbitrageTrader.find_opportunities()
TraderFind ==
    /\ program = "rates"
    /\ last' = LastCall("trader_find", -1, None,
                        Some(trader_find_opportunities(currency_pairs,
                                [n \in DOMAIN TraderCatalog |-> n])), "", <<>>)
    /\ deviation_points' = scan_writes_templates(currency_pairs,
                                [n \in DOMAIN TraderCatalog |-> n], deviation_points)
    /\ UNCHANGED <<program, nextOrder, currency_pairs, active_triangles, tpc,
                   appVars, monitorVars, finderVars, streamVars, feedVars>>

\* ArbitrageFinder.find_arbitrage_opportunities()
FinderFind ==
    /\ program = "rates"
    /\ last' = LastCall("finder_find", -1, None,
                        Some(find_arbitrage_opportunities(currency_pairs, f_triangles)),
                        "", <<>>)
    /\ f_deviation' = finder_writes_templates(currency_pairs, f_triangles, f_deviation)
    /\ UNCHANGED <<program, nextOrder, traderVars, appVars, monitorVars,
                   f_pairs, f_currencies, f_triangles, t_triangles, built, streamVars, feedVars>>

\* ArbitrageTrader.calculate_triangle(triangle)
TraderCalculate ==
    /\ program = "rates"
    /\ \E i \in DOMAIN TraderCatalog :
         last' = LastCall("calculate_triangle", i, None,
                          Some(calculate_triangle(currency_pairs, TraderCatalog[i])), "", <<>>)
    /\ UNCHANGED <<program, nextOrder, traderVars, appVars, monitorVars, finderVars, streamVars, feedVars>>

\* ArbitrageFinder.calculate_triangle_rate(triangle)
FinderCalculate ==
    /\ program = "rates"
    /\ \E i \in DOMAIN f_triangles :
         last' = LastCall("calculate_triangle_rate", i, None,
                          Some(calculate_triangle_rate(currency_pairs, f_triangles[i])),
                          "", <<>>)
    /\ UNCHANGED <<program, nextOrder, traderVars, appVars, monitorVars, finderVars, streamVars, feedVars>>

\* calc_deviations(tri_type, ticks) on the ticks of the three pairs
CalcDeviations ==
    /\ program = "rates"
    /\ \E ty \in TypeIds :
         last' = LastCall("calc_deviations", ty, None,
                          Some(calc_deviations(ty, RateTicks(currency_pairs))), "", <<>>)
    /\ UNCHANGED <<program, nextOrder, traderVars, appVars, monitorVars, finderVars, streamVars, feedVars>>

\* ArbTick.spread_points of the snapshot's tick of one pair, and
\* ArbitrageTrader.check_spread of the same pair
SpreadPoints ==
    /\ program = "rates"
    /\ \E j \in 1..3 :
         LET name == <<"B/C", "A/B", "A/C">>[j]
             tick == RateTicks(currency_pairs)[j]
         IN  last' = LastCall("spread_points", j, None,
                        Some([tick |-> tick, points |-> spread_points(tick),
                              within |-> check_spread(currency_pairs[name])]),
                        "", <<>>)
    /\ UNCHANGED <<program, nextOrder, traderVars, appVars, monitorVars, finderVars, streamVars, feedVars>>

\* a leg on the virtual pair C/B, whose real pair is B/C: the rate the scan
\* takes for it, the price execute_triangle records and the order it places
\* for it, and the scan's quote test
VirtualLeg ==
    /\ program = "rates"
    /\ \E operation \in {"BUY", "SELL"} :
         last' = LastCall("virtual_leg", -1, None,
                    Some([operation |-> operation,
                          scan |-> virtual_effective_rate(currency_pairs["B/C"], operation),
                          entry |-> virtual_entry_price(currency_pairs["B/C"], operation),
                          quoted |-> virtual_has_quotes(currency_pairs["B/C"]),
                          order |-> virtual_order("B/C", operation)]),
                    "", <<>>)
    /\ UNCHANGED <<program, nextOrder, traderVars, appVars, monitorVars, finderVars, streamVars, feedVars>>

(***************************************************************************)
(* The constructors of ArbitrageFinder and ArbitrageTrader build their     *)
(* catalogs from the pair universe.                                        *)
(***************************************************************************)
FinderBuild ==
    /\ program = "catalog" /\ "finder" \notin built
    /\ f_triangles' = f_triangles \o finder_build_all_triangles(f_currencies, f_pairs)
    /\ f_deviation' = [i \in DOMAIN f_triangles' |-> [num |-> 0, den |-> 1]]
    /\ built' = built \cup {"finder"}
    /\ last' = LastCall("finder_build", -1, None, None, "", <<>>)
    /\ UNCHANGED <<program, nextOrder, traderVars, appVars, monitorVars,
                   f_pairs, f_currencies, t_triangles, streamVars, feedVars>>

TraderBuild ==
    /\ program = "catalog" /\ "trader" \notin built
    /\ t_triangles' = t_triangles \o
                        trader_build_all_triangles(f_currencies, TraderUniverse(f_pairs))
    /\ built' = built \cup {"trader"}
    /\ last' = LastCall("trader_build", -1, None, None, "", <<>>)
    /\ UNCHANGED <<program, nextOrder, traderVars, appVars, monitorVars,
                   f_pairs, f_currencies, f_triangles, f_deviation, streamVars, feedVars>>

\* ArbitrageFinder.run: a scan of the catalog the constructor built
CatalogScan ==
    /\ program = "catalog" /\ "finder" \in built
    /\ last' = LastCall("catalog_scan", -1, None,
                        Some(find_arbitrage_opportunities(CatalogQuotes, f_triangles)),
                        "", <<>>)
    /\ f_deviation' = finder_writes_templates(CatalogQuotes, f_triangles, f_deviation)
    /\ UNCHANGED <<program, nextOrder, traderVars, appVars, monitorVars,
                   f_pairs, f_currencies, f_triangles, t_triangles, built, streamVars, feedVars>>

(***************************************************************************)
(* ArbitrageTrader / ArbitrageFinder: on_quote runs in the thread of       *)
(* subscribe_quote_thread and assigns pair.bid, pair.ask, pair.last one    *)
(* after the other; the control loop reads the attributes of the same      *)
(* object.  Each action is one attribute access.                           *)
(***************************************************************************)
\* the stream calls on_quote with a quote of the pair
QuoteArrive ==
    /\ program = "stream" /\ q_new = None /\ Len(q_seen) < MaxUpdates
    /\ \E q \in PairQuotes :
         /\ q_new' = Some(q)
         /\ q_seen' = Append(q_seen, q)
    /\ q_pc' = 0
    /\ UNCHANGED <<program, nextOrder, last, traderVars, appVars, monitorVars,
                   finderVars, q_read, feedVars>>

\* on_quote assigns the next attribute of the pair
QuoteAssign ==
    /\ program = "stream" /\ q_new # None
    /\ currency_pairs' = [currency_pairs EXCEPT
            ![StreamPair][WriteOrder[q_pc + 1]] = q_new[1][WriteOrder[q_pc + 1]]]
    /\ IF q_pc + 1 = Len(WriteOrder)
       THEN q_new' = None /\ q_pc' = 0
       ELSE q_new' = q_new /\ q_pc' = q_pc + 1
    /\ UNCHANGED <<program, nextOrder, last, active_triangles, tpc, deviation_points, appVars, monitorVars,
                   finderVars, q_seen, q_read, feedVars>>

\* check_spread(pair) starts: nothing read yet
LoopCheckSpread ==
    /\ program = "stream" /\ q_read # <<>>
    /\ q_read' = <<>>
    /\ UNCHANGED <<program, nextOrder, last, traderVars, appVars, monitorVars,
                   finderVars, q_new, q_pc, q_seen, feedVars>>

\* check_spread(pair) reads the next attribute of the pair
LoopReadField ==
    /\ program = "stream" /\ Len(q_read) < Len(ReadOrder)
    /\ q_read' = Append(q_read, currency_pairs[StreamPair][ReadOrder[Len(q_read) + 1]])
    /\ UNCHANGED <<program, nextOrder, last, traderVars, appVars, monitorVars,
                   finderVars, q_new, q_pc, q_seen, feedVars>>

(***************************************************************************)
(* ArbMonitor.start and stop, and the quotes of the stream threads that    *)
(* start has started.                                                      *)
(***************************************************************************)
\* start(): returns at once if running; otherwise sets running, subscribes
\* _handler to fp.on_quote and starts a thread on subscribe_quote_thread
MonitorStart ==
    /\ program = "feed" /\ m_threads < MaxStarts
    /\ IF m_running
       THEN UNCHANGED <<m_running, m_subscribed, m_threads>>
       ELSE /\ m_running' = TRUE
            /\ m_subscribed' = m_subscribed + 1
            /\ m_threads' = m_threads + 1
    /\ last' = LastCall("monitor_start", -1, None, None, "", <<>>)
    /\ UNCHANGED <<program, nextOrder, traderVars, appVars, monitorVars, finderVars,
                   streamVars, m_quotes, m_updates, callbacks>>

\* stop(): self.running = False
MonitorStop ==
    /\ program = "feed"
    /\ m_running' = FALSE
    /\ last' = LastCall("monitor_stop", -1, None, None, "", <<>>)
    /\ UNCHANGED <<program, nextOrder, traderVars, appVars, monitorVars, finderVars,
                   streamVars, m_subscribed, m_threads, m_quotes, m_updates, callbacks>>

\* the broker sends one quote: every subscription thread that was started
\* receives it, and _handler runs once for each delivery that reaches it
\* (between one and the number of threads, depending on how the library
\* treats a repeated subscription), adding 1 to updates each time
FeedQuote ==
    /\ program = "feed" /\ m_threads >= 1 /\ m_quotes < MaxUpdates
    /\ m_quotes' = m_quotes + 1
    /\ \E runs \in 1..m_threads : m_updates' = m_updates + runs
    /\ UNCHANGED <<program, nextOrder, last, traderVars, appVars, monitorVars, finderVars,
                   streamVars, m_running, m_subscribed, m_threads, callbacks>>

(***************************************************************************)
(* ArbMonitor with registered callbacks: add_callback and one call of      *)
(* _handler with a message of the stream.                                  *)
(***************************************************************************)
\* add_callback(callback): the callback either returns or raises an Exception
AddCallback ==
    /\ program = "dispatch" /\ Len(callbacks) < MaxCallbacks
    /\ \E does \in {"ok", "raise"} : callbacks' = Append(callbacks, does)
    /\ UNCHANGED <<program, nextOrder, last, traderVars, appVars, monitorVars, finderVars,
                   streamVars, m_running, m_subscribed, m_threads, m_quotes, m_updates>>

\* the stream calls _handler(quote) with one message
HandlerRun ==
    /\ program = "dispatch"
    /\ \E msg \in StreamMessages :
         last' = LastCall("_handler", [msg |-> msg, callbacks |-> callbacks], None,
                          Some(handler(msg, callbacks)), "", <<>>)
    /\ UNCHANGED <<program, nextOrder, traderVars, appVars, monitorVars, finderVars,
                   streamVars, feedVars>>

Next ==
    \/ AddCallback
    \/ HandlerRun
    \/ MonitorStart
    \/ MonitorStop
    \/ FeedQuote
    \/ CatalogScan
    \/ SpreadPoints
    \/ QuoteArrive
    \/ QuoteAssign
    \/ LoopCheckSpread
    \/ LoopReadField
    \/ RatesQuote
    \/ TraderFind
    \/ FinderFind
    \/ TraderCalculate
    \/ FinderCalculate
    \/ CalcDeviations
    \/ VirtualLeg
    \/ FinderBuild
    \/ TraderBuild
    \/ ScanQuote
    \/ ScanFind
    \/ HandlerTake
    \/ HandlerStore
    \/ ReaderGetTick
    \/ ReaderReadField
    \/ OpenTriangle
    \/ CloseTriangle
    \/ RunTick
    \/ AppStop
    \/ OnQuote
    \/ TraderScan
    \/ TraderMonitor
    \/ TraderCleanup

Spec == Init /\ [][Next]_vars

\* the loop of ArbitrageTrader.run keeps ticking: `while self.running` runs
\* its next iteration as long as no interrupt ends the loop
FairSpec == Spec /\ WF_vars(TraderScan) /\ WF_vars(TraderMonitor)

(***************************************************************************)
(* Properties.                                                             *)
(***************************************************************************)
\* the position of the PlaceOrder call of a log that got no order id (0: none)
FailedPlace(calls) ==
    IF \E j \in DOMAIN calls : calls[j].op = "PlaceOrder" /\ calls[j].resp # "id"
    THEN Min({j \in DOMAIN calls : calls[j].op = "PlaceOrder" /\ calls[j].resp # "id"})
    ELSE 0

\* a log of k successful placements, the failed placement of leg k, and then
\* exactly one cancel for each of the k order ids placed
RolledBack(calls) ==
    LET f == FailedPlace(calls) IN
    /\ Len(calls) = 2 * f - 1
    /\ \A j \in 1..(f - 1) : calls[j].op = "PlaceOrder" /\ calls[j].resp = "id"
                             /\ calls[j].leg = j - 1
    /\ calls[f].leg = f - 1
    /\ \A j \in (f + 1)..Len(calls) : calls[j].op = "CancelOrder"
    /\ \A j \in 1..(f - 1) : CancelsOf(calls, calls[j].id) = 1

\* C1: when the placement of leg k gets no order id or raises, open_triangle
\* (real mode) and execute_triangle issue exactly k cancels, one per order id
\* already placed, place no further leg, return failure, and leave the slot
\* table and the list of active triangles as they were before the call.
C1_Rollback ==
    [][ (last'.op \in {"open", "run_open", "execute"} /\ FailedPlace(last'.calls) > 0)
        => /\ RolledBack(last'.calls)
           /\ last'.ret \in {None, Some(FALSE)}
           /\ triangles' = triangles
           /\ active_triangles' = active_triangles
           /\ (last'.slot # None => ~triangles'[last'.slot[1]].active) ]_vars

\* leg 2 of open_triangle failed after legs 0 and 1: two cancels, slot free
C1_Witness ==
    /\ last.op = "open" /\ FailedPlace(last.calls) = 3
    /\ Cardinality({j \in DOMAIN last.calls : last.calls[j].op = "CancelOrder"}) = 2
    /\ last.ret = None
    /\ ~triangles[last.slot[1]].active

\* C2: with every slot active open_triangle, and with the limit reached
\* execute_triangle, return failure, call neither PlaceOrder nor CancelOrder
\* and leave the slot table / the active list unchanged.
C2_NoFreeSlot ==
    [][ /\ (last'.op = "open" /\ \A i \in SlotIds : triangles[i].active)
            => (last'.ret = None /\ last'.calls = <<>> /\ triangles' = triangles)
        /\ (last'.op = "execute" /\ tpc = "scan" /\ tpc' = "monitor"
                /\ Len(active_triangles) >= max_concurrent_triangles)
            => (last'.ret = Some(FALSE) /\ last'.calls = <<>>
                /\ active_triangles' = active_triangles) ]_vars

\* open_triangle has just been refused on a full table
C2_Witness ==
    /\ \A i \in SlotIds : triangles[i].active
    /\ last.op = "open" /\ last.ret = None /\ last.slot = None


\* C3: the control loops never take the number of active triangles above the
\* configured maximum: with MaxTriangles slots active the scanner of
\* ArbitrageApp.run returns no opportunity and the iteration opens nothing,
\* an iteration never raises the count above MaxTriangles, and in
\* ArbitrageTrader len(active_triangles) <= max_concurrent_triangles.
C3_MaxActive ==
    /\ [](Len(active_triangles) <= max_concurrent_triangles)
    /\ [][ last'.op \in {"run_scan", "run_open"}
           => /\ ActiveCount(triangles) >= MaxTriangles
                    => (last'.op = "run_scan" /\ last'.arg = 0 /\ triangles' = triangles)
              /\ ActiveCount(triangles') <= MaxTriangles
                    \/ ActiveCount(triangles') <= ActiveCount(triangles) ]_vars

\* the trader holds its maximum and has just refused one more triangle
C3_Witness ==
    /\ Len(active_triangles) = max_concurrent_triangles
    /\ last.op = "execute" /\ last.ret = Some(FALSE) /\ last.calls = <<>>

Overdue(id) ==
    \E n \in DOMAIN active_triangles :
        active_triangles[n].tickets[1].n = id /\ active_triangles[n].age >= HoldTicks

C6_ShutdownCloses == app = "stopped" => ActiveSlots(triangles) = {}

\* C7: close_triangle on an inactive slot or on an index past the table calls
\* no cancel and changes no slot, and over any sequence of opens and closes
\* close_triangle cancels an order id at most once.
C7_CloseNoOp ==
    /\ [](\A id \in OrderIds : closeCancels[id] <= 1)
    /\ [][ (last'.op = "close" /\ (IF last'.arg \in SlotIds
                                   THEN ~triangles[last'.arg].active ELSE TRUE))
           => (last'.calls = <<>> /\ triangles' = triangles) ]_vars

\* close_triangle was called on a slot that close_triangle had released
\* before, its order ids still recorded
C7_Witness ==
    /\ last.op = "close" /\ last.slot = None /\ last.arg \in SlotIds
    /\ last.calls = <<>>
    /\ \A j \in 1..3 : triangles[last.arg].tickets[j].kind = "ORD"
                       /\ closeCancels[triangles[last.arg].tickets[j].n] = 1

\* C8: close_triangle on an active slot calls CancelOrder exactly once for
\* each recorded order id, whatever the earlier cancels answered, and
\* leaves the slot inactive.
C8_CloseAll ==
    [][ (last'.op = "close" /\ last'.arg \in SlotIds /\ triangles[last'.arg].active)
        => /\ \A j \in 1..3 :
                triangles[last'.arg].tickets[j].kind = "ORD"
                    => CancelsOf(last'.calls, triangles[last'.arg].tickets[j].n) = 1
           /\ Len(last'.calls) =
                Cardinality({j \in 1..3 : triangles[last'.arg].tickets[j].kind = "ORD"})
           /\ ~triangles'[last'.arg].active ]_vars

\* close_triangle released a slot although all three cancels failed, the
\* first of them with an exception
C8_Witness ==
    /\ last.op = "close" /\ last.slot # None /\ Len(last.calls) = 3
    /\ last.calls[1].resp = "raise"
    /\ \A j \in 1..3 : last.calls[j].resp # "ok"
    /\ ~triangles[last.arg].active

\* C9: whatever get_tick(currency) returned to the control loop is absent or
\* a tick whose fields, as the loop reads them one after another while the
\* stream thread keeps running _handler, all come from one update received
\* for the symbol of that currency.
C9_NoTornRead ==
    r_ref # None =>
        \E u \in DOMAIN received :
            /\ received[u].symbol = ARB_CURRENCY_PAIRS[r_cur]
            /\ \A f \in DOMAIN r_vals :
                   r_vals[f] = TickFields(HandlerTick(received[u]))[f]

\* the loop has read bid, ask, last and volume of a tick that _handler
\* replaced in the cache while the loop was reading
C9_Witness ==
    /\ r_ref # None /\ Len(r_vals) = 4
    /\ ticks[ARB_CURRENCY_PAIRS[r_cur]] # r_ref[1]
    /\ TickFields(objects[ticks[ARB_CURRENCY_PAIRS[r_cur]]]) # r_vals

\* C10: whenever _handler is between two quotes, get_tick of every currency
\* is absent if no update was received for its symbol and otherwise holds
\* exactly the values of the last update received for it, a missing field
\* reading 0; while a quote is being stored this holds for all other symbols.
C10_LastWriteWins ==
    program = "monitor" =>
        \A currency \in ReaderCurrencies \cap DOMAIN ARB_CURRENCY_PAIRS :
            LET sym == ARB_CURRENCY_PAIRS[currency] IN
            (h_tick = None \/ h_tick[1].symbol # sym) =>
                IF sym \in DOMAIN latest
                THEN /\ get_tick(ticks, currency) # None
                     /\ objects[get_tick(ticks, currency)[1]] = HandlerTick(latest[sym])
                     /\ \A f \in {"bid", "ask", "last", "volume"} :
                            latest[sym][f] = <<>>
                                => objects[get_tick(ticks, currency)[1]][f] = 0
                ELSE get_tick(ticks, currency) = None

\* an update with missing fields has replaced a complete tick of the same
\* symbol while the tick of another symbol stays cached
C10_Witness ==
    /\ h_tick = None
    /\ \E s \in DOMAIN latest :
          /\ latest[s].ask = <<>>
          /\ objects[ticks[s]].ask = 0
          /\ \E u \in DOMAIN received :
                received[u].symbol = s /\ received[u].ask # <<>>
    /\ Cardinality(DOMAIN ticks) = 2

\* the symbol of leg j of triangle type tri
LegSymbol(tri, j) == ARB_CURRENCY_PAIRS[ARB_TRIANGLE_PAIRS[tri + 1][j]]

\* C11: every opportunity a scan returns (find_opportunities of the
\* calculator on the cache, find_opportunities of the trader on its pairs)
\* is of a triangle whose three legs all have a quote with positive bid and
\* positive ask in the snapshot scanned, and the scan raises nothing.
C11_SkipsIncomplete ==
    /\ last.op = "find" =>
          /\ last.raised = ""
          /\ \A n \in DOMAIN last.ret[1] : \A j \in 1..3 :
                /\ ARB_TRIANGLE_PAIRS[last.ret[1][n].triangle_type + 1][j]
                        \in DOMAIN ARB_CURRENCY_PAIRS
                /\ LegSymbol(last.ret[1][n].triangle_type, j) \in DOMAIN snapshot
                /\ snapshot[LegSymbol(last.ret[1][n].triangle_type, j)].bid > 0
                /\ snapshot[LegSymbol(last.ret[1][n].triangle_type, j)].ask > 0
    /\ last.op = "trader_find" =>
          /\ last.raised = ""
          /\ \A n \in DOMAIN last.ret[1] : \A j \in 1..3 :
                /\ currency_pairs[TraderCatalog[last.ret[1][n].triangle].pairs[j]].bid > 0
                /\ currency_pairs[TraderCatalog[last.ret[1][n].triangle].pairs[j]].ask > 0

\* a scan of the calculator with no triangle active met a USD tick with a
\* bid but no ask beside a EUR tick, skipped the types with that leg and
\* returned nothing
C11_Witness ==
    /\ last.op = "find"
    /\ LegSymbol(0, 1) \in DOMAIN snapshot /\ LegSymbol(0, 2) \in DOMAIN snapshot
    /\ snapshot[LegSymbol(0, 1)].ask = 0 /\ snapshot[LegSymbol(0, 1)].bid > 0
    /\ ActiveCount(triangles) = 0
    /\ last.ret[1] = <<>>

\* C12: no opportunity returned by find_opportunities of the calculator or
\* by find_arbitrage_opportunities of the finder is of a triangle one of
\* whose legs has, in the snapshot scanned, a spread (ask - bid in points)
\* above the maximum spread.
C12_SpreadFilter ==
    /\ last.op = "find" =>
          \A n \in DOMAIN last.ret[1] : \A j \in 1..3 :
              snapshot[LegSymbol(last.ret[1][n].triangle_type, j)].ask
                - snapshot[LegSymbol(last.ret[1][n].triangle_type, j)].bid <= MaxSpread
    /\ last.op = "finder_find" =>
          \A n \in DOMAIN last.ret[1] : \A j \in 1..3 :
              currency_pairs[PairName(f_triangles[last.ret[1][n].triangle].pairs[j])].ask
                - currency_pairs[PairName(f_triangles[last.ret[1][n].triangle].pairs[j])].bid
                    <= finder_max_spread_points

\* a scan of the calculator with no triangle active met a USD tick whose
\* spread is above MaxSpread beside a tight EUR tick, the deviation of
\* type 0 being far above MinDeviation, and returned nothing
C12_Witness ==
    /\ last.op = "find"
    /\ ActiveCount(triangles) = 0
    /\ get_ticks_for_triangle(snapshot, 0) # None
    /\ snapshot[LegSymbol(0, 1)].ask - snapshot[LegSymbol(0, 1)].bid > MaxSpread
    /\ snapshot[LegSymbol(0, 2)].ask - snapshot[LegSymbol(0, 2)].bid <= MaxSpread
    /\ Greater(calc_deviations(0, get_ticks_for_triangle(snapshot, 0)[1]).dev_buy,
               MinDeviation)
    /\ last.ret[1] = <<>>

\* C13: after a scan of the calculator that is not refused for the number
\* of active triangles, a triangle type that has no active instance, whose
\* three ticks are cached and valid and whose spreads pass is among the
\* opportunities returned if and only if the absolute value of its buy or
\* of its sell deviation is at least MinDeviation.
C13_Threshold ==
    (last.op = "find" /\ ActiveCount(triangles) < MaxTriangles) =>
        \A tri \in 0..(Len(ARB_TRIANGLE_PAIRS) - 1) :
            (/\ ~\E i \in DOMAIN triangles :
                    triangles[i].active /\ triangles[i].triangle_type = tri
             /\ get_ticks_for_triangle(snapshot, tri) # None
             /\ check_spreads(get_ticks_for_triangle(snapshot, tri)[1], MaxSpread))
            => ((\E n \in DOMAIN last.ret[1] : last.ret[1][n].triangle_type = tri)
                <=> \/ AbsGeq(calc_deviations(tri,
                                get_ticks_for_triangle(snapshot, tri)[1]).dev_buy,
                              MinDeviation)
                    \/ AbsGeq(calc_deviations(tri,
                                get_ticks_for_triangle(snapshot, tri)[1]).dev_sell,
                              MinDeviation))

\* C14: in the list a scan of the calculator or of the trader returns, no
\* entry has a greater |deviation| than the entry before it, and of two
\* neighbours with equal |deviation| the first has the smaller template id
\* (triangle type for the calculator, index in self.triangles for the
\* trader).
C14_Ordering ==
    /\ last.op = "find" =>
          \A n \in 1..(Len(last.ret[1]) - 1) :
              /\ ~AbsGreater(last.ret[1][n + 1].dev, last.ret[1][n].dev)
              /\ ~AbsGreater(last.ret[1][n].dev, last.ret[1][n + 1].dev)
                    => last.ret[1][n].triangle_type < last.ret[1][n + 1].triangle_type
    /\ last.op = "trader_find" =>
          \A n \in 1..(Len(last.ret[1]) - 1) :
              /\ ~AbsGreater(last.ret[1][n + 1].dev, last.ret[1][n].dev)
              /\ ~AbsGreater(last.ret[1][n].dev, last.ret[1][n + 1].dev)
                    => last.ret[1][n].triangle < last.ret[1][n + 1].triangle

\* a scan of the trader returned four templates: the two division
\* templates, equal in |deviation|, before the two multiplication
\* templates, equal in a smaller |deviation|, each pair in catalog order
C14_Witness ==
    /\ last.op = "trader_find"
    /\ Len(last.ret[1]) = 4
    /\ <<last.ret[1][1].triangle, last.ret[1][2].triangle,
         last.ret[1][3].triangle, last.ret[1][4].triangle>> = <<3, 4, 1, 2>>
    /\ last.ret[1][1].dev = last.ret[1][2].dev
    /\ last.ret[1][3].dev = last.ret[1][4].dev
    /\ AbsGreater(last.ret[1][2].dev, last.ret[1][3].dev)

\* the currencies of a template's three pairs
TemplateCurrencies(t) == UNION {{t.pairs[j][1], t.pairs[j][2]} : j \in 1..3}

\* the combinator identity in terms of base and quote currencies:
\* (a/b) * (b/c) = a/c for MUL; (a/b) / (a/c) = c/b or (a/b) / (c/b) = a/c
\* for DIV
CombinatorIdentity(t) ==
    IF t.formula_type = "MUL"
    THEN /\ t.pairs[1][2] = t.pairs[2][1]
         /\ t.pairs[3] = <<t.pairs[1][1], t.pairs[2][2]>>
    ELSE \/ /\ t.pairs[1][1] = t.pairs[2][1]
            /\ t.pairs[3] = <<t.pairs[2][2], t.pairs[1][2]>>
         \/ /\ t.pairs[1][2] = t.pairs[2][2]
            /\ t.pairs[3] = <<t.pairs[1][1], t.pairs[2][1]>>

\* C15: every template in the catalog of the finder and in the catalog of
\* the trader, whatever the pair universe and the order of the currencies,
\* involves exactly three currencies, each of its pairs joining two
\* different ones, and satisfies the combinator identity of its formula.
C15_CatalogInvariant ==
    \A tris \in {f_triangles, t_triangles} : \A n \in DOMAIN tris :
        /\ Cardinality(TemplateCurrencies(tris[n])) = 3
        /\ \A j \in 1..3 : tris[n].pairs[j][1] # tris[n].pairs[j][2]
        /\ CombinatorIdentity(tris[n])

\* both constructors have run on a universe for which the finder built a
\* multiplication and a division triangle, each in both directions
C15_Witness ==
    /\ program = "catalog"
    /\ built = {"finder", "trader"}
    /\ Len(f_triangles) = 4
    /\ f_triangles[1].formula_type = "MUL" /\ f_triangles[3].formula_type = "DIV"

\* equality of two fractions with positive denominators, and the negation
FracEq(a, b) ==
    /\ a.num \div a.den = b.num \div b.den
    /\ (a.num % a.den) * b.den = (b.num % b.den) * a.den

Neg(a) == [num |-> -a.num, den |-> a.den]

\* C16: on every snapshot, dev_buy of calc_deviations is the negative of
\* dev_sell, and the deviation calculate_triangle of the trader and
\* calculate_triangle_rate of the finder give for the forward template of a
\* triangle is the negative of the one they give for its reverse template.
C16_SignMirror ==
    /\ last.op = "calc_deviations" =>
          FracEq(last.ret[1].dev_buy, Neg(last.ret[1].dev_sell))
    /\ (last.op = "calculate_triangle" /\ last.arg % 2 = 1) =>
          FracEq(last.ret[1],
                 Neg(calculate_triangle(currency_pairs, TraderCatalog[last.arg + 1])))
    /\ (last.op = "calculate_triangle_rate" /\ last.arg % 2 = 1) =>
          FracEq(last.ret[1],
                 Neg(calculate_triangle_rate(currency_pairs, f_triangles[last.arg + 1])))

\* the snapshot of the worked example
ExampleSnapshot == [pair \in TraderPairs |-> ExampleQuote(pair)]

SlotStates(tris) ==
    [i \in DOMAIN tris |->
        [active |-> tris[i].active, triangle_type |-> tris[i].triangle_type,
         direction |-> tris[i].direction, entry_prices |-> tris[i].entry_prices,
         compensation |-> tris[i].compensation, parent_index |-> tris[i].parent_index]]

\* the table of a real-mode run that went through the same calls: broker
\* order ids in place of the synthetic ones
RealTable(tris) ==
    [i \in DOMAIN tris |->
        [tris[i] EXCEPT !.tickets = [j \in 1..3 |->
            IF tris[i].tickets[j].kind = "PAPER" THEN OrderTicket(3 * i + j)
            ELSE tris[i].tickets[j]]]]

\* C18: with PaperTrading set, no step of the executor issues a PlaceOrder
\* or CancelOrder call, every active slot holds the three synthetic PAPER
\* tickets of its slot, and every open_triangle and close_triangle call
\* leaves the slots in the states, and returns the value, that the same call
\* leaves and returns in real mode on the corresponding table when every
\* broker call succeeds.
C18_PaperEquivalence ==
    [][(program = "app" /\ PaperTrading) =>
          /\ \A j \in DOMAIN last'.calls :
                last'.calls[j].op \notin {"PlaceOrder", "CancelOrder"}
          /\ \A i \in SlotIds : triangles'[i].active =>
                \A j \in 1..3 : triangles'[i].tickets[j] = PaperTicket(i, j - 1)
          /\ last'.op = "open" =>
                \E opp \in ApiOpps :
                    LET real == open_triangle(RealTable(triangles), 1, FALSE, opp,
                                              FALSE, -1, 3, "id", <<>>)
                    IN  /\ opp.triangle_type = last'.arg
                        /\ SlotStates(triangles') = SlotStates(real.triangles)
                        /\ last'.ret = real.last.ret
                        /\ last'.raised = real.last.raised
          /\ last'.op = "close" =>
                LET real == close_triangle(RealTable(triangles), last'.arg,
                                           <<"ok", "ok", "ok">>)
                IN  /\ SlotStates(triangles') = SlotStates(real.triangles)
                    /\ last'.slot = real.last.slot
                    /\ (last'.slot # None => Len(real.last.calls) = 3)]_vars

\* in paper mode a triangle was opened in slot 1 beside an active one and
\* then closed again without a call to the broker
C18_Witness ==
    /\ program = "app" /\ PaperTrading
    /\ last.op = "close" /\ last.slot = Some(1) /\ last.calls = <<>>
    /\ triangles[0].active /\ ~triangles[1].active
    /\ triangles[1].tickets = [j \in 1..3 |-> PaperTicket(1, j - 1)]

\* C19: for a leg on a virtual pair, the scan and execute_triangle both take
\* the reciprocal of the real quote with the sides swapped (a BUY reads the
\* bid, a SELL the ask) and so agree with each other, and a real quote
\* without a positive bid and ask fails the scan's quote test and gives the
\* rate 0.
C19_VirtualPricing ==
    last.op = "virtual_leg" =>
        /\ last.ret[1].scan.side = (IF last.ret[1].operation = "BUY" THEN "bid" ELSE "ask")
        /\ last.ret[1].entry.side = last.ret[1].scan.side
        /\ last.ret[1].entry.rate = last.ret[1].scan.rate
        /\ (currency_pairs["B/C"].bid <= 0 \/ currency_pairs["B/C"].ask <= 0)
              => (~last.ret[1].quoted /\ last.ret[1].scan.rate.num = 0)

C21_NoDuplicateType ==
    /\ [](last.op = "find" =>
            \A n \in DOMAIN last.ret[1] : \A i \in SlotIds :
                triangles[i].active
                    => triangles[i].triangle_type # last.ret[1][n].triangle_type)
    /\ [][last'.op = "run_open" =>
            /\ \A i \in SlotIds :
                  triangles[i].active => triangles[i].triangle_type # last'.arg
            /\ \A i, j \in SlotIds :
                  (/\ i # j /\ triangles'[i].active /\ triangles'[j].active
                   /\ triangles'[i].triangle_type = triangles'[j].triangle_type)
                  => (triangles[i].active /\ triangles[j].active)]_vars

\* a scan met an active triangle of type 0 while the snapshot put type 0
\* far above the threshold, and returned type 3 only
C21_Witness ==
    /\ last.op = "find"
    /\ \E i \in SlotIds : triangles[i].active /\ triangles[i].triangle_type = 0
    /\ ActiveCount(triangles) < MaxTriangles
    /\ get_ticks_for_triangle(snapshot, 0) # None
    /\ check_spreads(get_ticks_for_triangle(snapshot, 0)[1], MaxSpread)
    /\ Greater(calc_deviations(0, get_ticks_for_triangle(snapshot, 0)[1]).dev_buy,
               MinDeviation)
    /\ Len(last.ret[1]) = 1 /\ last.ret[1][1].triangle_type = 3

\* C22: whenever the control loop has read the ask and the bid of a pair,
\* the two values are those of the pair as constructed or the ask and the
\* bid of one and the same quote on_quote was called with.
C22_NoTornQuote ==
    Len(q_read) = Len(ReadOrder) =>
        \/ q_read = <<NoQuote.ask, NoQuote.bid>>
        \/ \E u \in DOMAIN q_seen : q_read = <<q_seen[u].ask, q_seen[u].bid>>

\* a template of the static catalog as three pairs: every currency code of
\* ARB_TRIANGLE_PAIRS stands for its instrument against the rouble
StaticTemplate(tri) ==
    [pairs |-> [j \in 1..3 |-> <<ARB_TRIANGLE_PAIRS[tri + 1][j], "RUB">>],
     formula_type |-> IF ARB_TRIANGLE_FORMULAS[tri + 1] = 0 THEN "MUL" ELSE "DIV"]

\* C23: every template of the static catalog names three pairwise different
\* currency symbols, and its three pairs satisfy the combinator identity of
\* its formula.
C23_StaticCatalog ==
    program \in Programs =>
        \A tri \in 0..(Len(ARB_TRIANGLE_PAIRS) - 1) :
            /\ Cardinality({ARB_TRIANGLE_PAIRS[tri + 1][j] : j \in 1..3}) = 3
            /\ CombinatorIdentity(StaticTemplate(tri))

\* a catalog holds the template with these pairs, operations and formula
Registered(tris, pairs, ops, formula) ==
    \E n \in DOMAIN tris :
        tris[n] = [pairs |-> pairs, operations |-> ops, formula_type |-> formula]

\* C24: once a constructor has built its catalog, for every ordered triple of
\* distinct currencies (c1, c2, c3) whose pairs (c1,c2), (c2,c3) and (c1,c3)
\* all resolve, the catalog holds the MUL triangle on those pairs with the
\* operations BUY, BUY, SELL and with SELL, SELL, BUY, whatever the order of
\* the currency list; and every template with a forward operation list has
\* its reverse in the catalog.
C24_CatalogComplete ==
    /\ "finder" \in built =>
          \A c1, c2, c3 \in {f_currencies[i] : i \in DOMAIN f_currencies} :
              (/\ Cardinality({c1, c2, c3}) = 3
               /\ finder_find_pair(f_pairs, c1, c2) # None
               /\ finder_find_pair(f_pairs, c2, c3) # None
               /\ finder_find_pair(f_pairs, c1, c3) # None)
              => /\ Registered(f_triangles, <<<<c1, c2>>, <<c2, c3>>, <<c1, c3>>>>,
                               <<"BUY", "BUY", "SELL">>, "MUL")
                 /\ Registered(f_triangles, <<<<c1, c2>>, <<c2, c3>>, <<c1, c3>>>>,
                               <<"SELL", "SELL", "BUY">>, "MUL")
    /\ "trader" \in built =>
          \A c1, c2, c3 \in {f_currencies[i] : i \in DOMAIN f_currencies} \cup {"RUB"} :
              (/\ Cardinality({c1, c2, c3}) = 3
               /\ trader_find_pair(TraderUniverse(f_pairs), c1, c2) # None
               /\ trader_find_pair(TraderUniverse(f_pairs), c2, c3) # None
               /\ trader_find_pair(TraderUniverse(f_pairs), c1, c3) # None)
              => /\ Registered(t_triangles, <<<<c1, c2>>, <<c2, c3>>, <<c1, c3>>>>,
                               <<"BUY", "BUY", "SELL">>, "MUL")
                 /\ Registered(t_triangles, <<<<c1, c2>>, <<c2, c3>>, <<c1, c3>>>>,
                               <<"SELL", "SELL", "BUY">>, "MUL")
    /\ \A tris \in {f_triangles, t_triangles} : \A n \in DOMAIN tris :
          /\ tris[n].operations = <<"BUY", "BUY", "SELL">>
                => Registered(tris, tris[n].pairs, <<"SELL", "SELL", "BUY">>, "MUL")
          /\ tris[n].operations = <<"BUY", "SELL", "SELL">>
                => Registered(tris, tris[n].pairs, <<"SELL", "BUY", "BUY">>, "DIV")

\* C25: the order execute_triangle places for a leg on a virtual pair is on
\* the symbol of the real pair and has the side opposite to the leg's
\* operation in the template.
C25_VirtualSideInverted ==
    last.op = "virtual_leg" =>
        /\ last.ret[1].order.symbol = "B/C"
        /\ last.ret[1].order.side = (IF last.ret[1].operation = "BUY" THEN "SELL" ELSE "BUY")

\* the PlaceOrder calls of a call log, in the order they were made
Placements(calls) == SelectSeq(calls, LAMBDA c : c.op = "PlaceOrder")

\* C26: in every open_triangle and execute_triangle the PlaceOrder calls come
\* first and in leg order 0, 1, 2, every placement before the last one
\* returned an order id (so no leg is placed after a failed leg), and a slot
\* or an active triangle appears only with the three returned ids recorded
\* as its tickets.
C26_SequentialLegs ==
    [][LET placed == Placements(last'.calls) IN
       /\ last'.op \in {"open", "run_open", "execute"} =>
             /\ Len(placed) <= 3
             /\ \A i \in DOMAIN placed :
                   /\ last'.calls[i] = placed[i]
                   /\ placed[i].leg = i - 1
                   /\ i < Len(placed) => placed[i].resp = "id"
       /\ \A s \in SlotIds :
             (~triangles[s].active /\ triangles'[s].active) =>
                 /\ last'.op \in {"open", "run_open"}
                 /\ \A i \in 1..3 : triangles'[s].tickets[i] # EmptyTicket
                 /\ ~PaperTrading =>
                       /\ Len(placed) = 3
                       /\ \A i \in 1..3 :
                             /\ placed[i].resp = "id"
                             /\ triangles'[s].tickets[i] = OrderTicket(placed[i].id)
       /\ Len(active_triangles') > Len(active_triangles) =>
             /\ last'.op = "execute"
             /\ Len(placed) = 3
             /\ \A i \in 1..3 :
                   /\ placed[i].resp = "id"
                   /\ active_triangles'[Len(active_triangles')].tickets[i]
                          = OrderTicket(placed[i].id)
      ]_vars

\* the second leg failed after the first was placed: one cancel follows and
\* no third placement
C26_Witness ==
    /\ last.op \in {"open", "execute"}
    /\ Len(last.calls) = 3
    /\ last.calls[1].op = "PlaceOrder" /\ last.calls[1].resp = "id"
    /\ last.calls[2].op = "PlaceOrder" /\ last.calls[2].resp # "id"
    /\ last.calls[3].op = "CancelOrder"

\* number of calls of one broker operation in a call log
CountCalls(calls, op) == Cardinality({j \in DOMAIN calls : calls[j].op = op})

\* C27: every open_triangle makes at most three PlaceOrder and at most two
\* CancelOrder calls, every close_triangle at most three CancelOrder calls
\* and no PlaceOrder, and no order id is cancelled more than once in a call,
\* whatever the cancel answered.
C27_BoundedCalls ==
    /\ last.op \in {"open", "run_open"} =>
          /\ CountCalls(last.calls, "PlaceOrder") <= 3
          /\ CountCalls(last.calls, "CancelOrder") <= 2
          /\ Len(last.calls) <= 5
    /\ last.op = "close" =>
          /\ CountCalls(last.calls, "PlaceOrder") = 0
          /\ CountCalls(last.calls, "CancelOrder") <= 3
          /\ Len(last.calls) <= 3
    /\ last.op \in {"open", "run_open", "close"} =>
          \A id \in OrderIds : CancelsOf(last.calls, id) <= 1

\* a rollback of two placed legs whose first cancel failed
C27_Witness ==
    /\ last.op = "open"
    /\ CountCalls(last.calls, "PlaceOrder") = 3
    /\ CountCalls(last.calls, "CancelOrder") = 2
    /\ last.calls[4].op = "CancelOrder" /\ last.calls[4].resp # "ok"

\* C28: the spread in points of a leg is its ask - bid divided by the point
\* size of the leg's own instrument, whether that is 0.0001 or 0.01 (a price
\* quoted to the kopeck), and check_spread compares that number with
\* max_spread_points.
C28_OwnPointSize ==
    \A pointSize \in {1, KopeckPoints} :
        (last.op = "spread_points" /\ last.ret[1].tick.bid > 0 /\ last.ret[1].tick.ask > 0) =>
            /\ last.ret[1].points * pointSize = last.ret[1].tick.ask - last.ret[1].tick.bid
            /\ last.ret[1].within
                  <=> (last.ret[1].tick.ask - last.ret[1].tick.bid
                           <= max_spread_points * pointSize)

SidesForSign(formula_type, positive) ==
    IF formula_type = "MUL"
    THEN IF positive THEN <<"BUY", "BUY", "SELL">> ELSE <<"SELL", "SELL", "BUY">>
    ELSE IF positive THEN <<"BUY", "SELL", "SELL">> ELSE <<"SELL", "BUY", "BUY">>

C31_PriceSides ==
    last.op = "calc_deviations" =>
        \A direction \in {1, -1} :
            LET tks == RateTicks(currency_pairs)
                opp == [signal_type |-> last.ret[1].sig_type, direction |-> direction,
                        ticks |-> tks]
            IN  \A i \in 1..3 :
                    /\ deviation_prices(direction, tks)[i]
                          = (IF OrderSides(opp)[i] = "BUY" THEN tks[i].ask ELSE tks[i].bid)
                    /\ deviation_prices(direction, tks)[i] = OrderPrices(opp)[i]

\* the running profit of an active triangle over its three legs
RunningProfit(a, cp) == CurrentProfit(a, cp, [j \in 1..3 |-> "state"])

C33_CleanupCancelsAll ==
    last.op = "cleanup" =>
        /\ \A n \in DOMAIN active_triangles : \A j \in 1..3 :
              CancelsOf(last.calls, active_triangles[n].tickets[j].n) = 1
        /\ CountCalls(last.calls, "CancelOrder") = 3 * Len(active_triangles)
        /\ Len(last.calls) = 3 * Len(active_triangles) + 1
        /\ last.calls[Len(last.calls)].op = "close_channel"

\* cleanup ran with two active triangles and its first cancel raised
C33_Witness ==
    /\ last.op = "cleanup"
    /\ Len(active_triangles) = 2
    /\ last.calls[1].op = "CancelOrder" /\ last.calls[1].resp = "raise"

\* C34: every active slot of ArbExecutor holds three non-empty order ids,
\* three entry prices, three lots, a direction +1 or -1, a triangle_type of
\* the catalog and an open_time; open_triangle returns only the lowest index
\* among the slots that were free when it was called, and the record it
\* installs there is a new one that owes nothing to the slot's previous
\* occupant, while every other slot keeps its record.
C34_SlotRegistry ==
    /\ [](program = "app" =>
            \A s \in SlotIds : triangles[s].active =>
                /\ Len(triangles[s].tickets) = 3
                /\ \A i \in 1..3 : triangles[s].tickets[i] # EmptyTicket
                /\ Len(triangles[s].entry_prices) = 3
                /\ Len(triangles[s].lots) = 3
                /\ triangles[s].direction \in {1, -1}
                /\ triangles[s].triangle_type \in 0..(Len(ARB_TRIANGLE_PAIRS) - 1)
                /\ triangles[s].open_time # None)
    /\ [][(last'.op \in {"open", "run_open"} /\ last'.ret # None) =>
            LET slot == last'.ret[1] IN
            /\ ~triangles[slot].active
            /\ \A i \in SlotIds : i < slot => triangles[i].active
            /\ \A i \in SlotIds : i # slot => triangles'[i] = triangles[i]
            /\ triangles'[slot].active
            /\ triangles'[slot].triangle_type = last'.arg
            /\ triangles'[slot].compensation = FALSE
            /\ triangles'[slot].parent_index = -1
            /\ triangles'[slot].lots
                  = calc_lots(last'.arg, triangles'[slot].direction, LotSize)
            /\ triangles'[slot].tickets
                  = (IF PaperTrading THEN [i \in 1..3 |-> PaperTicket(slot, i - 1)]
                     ELSE [i \in 1..3 |-> OrderTicket(Placements(last'.calls)[i].id)])
          ]_vars

\* open_triangle filled a slot whose previous occupant had been closed: an
\* order id that a close cancelled is no longer recorded in any slot
C34_Witness ==
    /\ last.op = "open" /\ last.ret # None
    /\ \E id \in OrderIds :
          /\ closeCancels[id] = 1
          /\ \A s \in SlotIds : \A i \in 1..3 : triangles[s].tickets[i] # OrderTicket(id)

\* C35: when ArbitrageApp.run hands the best opportunity of a scan of the
\* ArbMonitor cache to open_triangle, the call raises nothing and the control
\* loop keeps running; with a free slot and PaperTrading set the call
\* returns the slot index and that slot is active.
C35_ScannerOpens ==
    last.op = "run_open" =>
        /\ last.raised = ""
        /\ app = "running"
        /\ (PaperTrading /\ last.slot # None) =>
              /\ last.ret = last.slot
              /\ triangles[last.slot[1]].active

\* C36: when every pair of the universe is quoted against RUB, the catalog
\* build_all_triangles leaves is empty, for the finder and for the trader
\* (whose _find_pair also resolves the virtual pairs RUB/XXX), and a scan of
\* that catalog finds nothing.
C36_RubOnlyEmpty ==
    (program = "catalog" /\ \A p \in f_pairs : p[2] = "RUB") =>
        /\ "finder" \in built => f_triangles = <<>>
        /\ "trader" \in built => t_triangles = <<>>
        /\ last.op = "catalog_scan" => last.ret = Some(<<>>)

\* both constructors ran on the universe USD/RUB, EUR/RUB and the catalog
\* was scanned
C36_Witness ==
    /\ program = "catalog"
    /\ f_pairs = {<<"USD", "RUB">>, <<"EUR", "RUB">>}
    /\ built = {"finder", "trader"}
    /\ last.op = "catalog_scan"

\* C37: for the triangle open_triangle has just made active, get_side(i) is
\* the side of the order the call placed for leg i, for i = 0, 1, 2.
C37_GetSide ==
    (last.op \in {"open", "run_open"} /\ last.ret # None /\ ~PaperTrading) =>
        \A i \in 1..3 :
            get_side(triangles[last.ret[1]], i - 1) = Placements(last.calls)[i].side

\* bid and ask of every tick are positive and bid <= ask
Uncrossed(tks) == \A j \in DOMAIN tks : 0 < tks[j].bid /\ tks[j].bid <= tks[j].ask

\* C38: on three ticks with 0 < bid <= ask calc_deviations never returns a
\* positive dev_buy together with a positive dev_sell, for either formula;
\* and a scan returns at most one opportunity per triangle type, of
\* direction 1 exactly when dev_buy is above MinDeviation, in which case
\* dev_sell is not.
C38_OneDirection ==
    /\ (last.op = "calc_deviations" /\ Uncrossed(RateTicks(currency_pairs))) =>
          ~(last.ret[1].dev_buy.num > 0 /\ last.ret[1].dev_sell.num > 0)
    /\ last.op = "find" =>
          \A n \in DOMAIN last.ret[1] :
              LET opp == last.ret[1][n]
                  d == calc_deviations(opp.triangle_type, opp.ticks)
              IN  /\ \A m \in DOMAIN last.ret[1] :
                        last.ret[1][m].triangle_type = opp.triangle_type => m = n
                  /\ Uncrossed(opp.ticks) =>
                        /\ ~(Greater(d.dev_buy, MinDeviation) /\ Greater(d.dev_sell, MinDeviation))
                        /\ opp.direction = 1 <=> Greater(d.dev_buy, MinDeviation)
                        /\ opp.direction = -1 <=> Greater(d.dev_sell, MinDeviation)

\* calc_deviations of the multiplication type returned a positive dev_buy on
\* ticks of which one has bid < ask
C38_Witness ==
    /\ last.op = "calc_deviations" /\ last.arg = 0
    /\ Uncrossed(RateTicks(currency_pairs))
    /\ currency_pairs["A/C"].bid < currency_pairs["A/C"].ask
    /\ last.ret[1].dev_buy.num > 0

\* C39: after any sequence of start() and stop() calls of ArbMonitor,
\* _handler has been subscribed at most once and at most one subscription
\* thread has been started, and updates counts every quote sent once.
C39_SingleSubscription ==
    program = "feed" =>
        /\ m_subscribed <= 1
        /\ m_threads <= 1
        /\ m_updates = m_quotes

\* C40: in _handler every quote of the message is stored in the cache before
\* any callback is called for it, and whatever callbacks raise, every
\* callback is called for every quote of the message and every quote is
\* stored and counted.
C40_CallbacksIsolated ==
    last.op = "_handler" =>
        LET msg == last.arg.msg
            cbs == last.arg.callbacks
            out == last.ret[1]
            ev == out.events
        IN  /\ out.updates = Len(msg)
            /\ \A i \in 1..Len(msg) :
                 /\ msg[i].symbol \in DOMAIN out.ticks
                 /\ \E p \in 1..Len(ev) :
                      /\ ev[p].ev = "store" /\ ev[p].quote = i
                      /\ ev[p].symbol = msg[i].symbol
                      /\ \A c \in 1..Len(ev) :
                           (ev[c].ev = "cb" /\ ev[c].quote = i) => c > p
                      /\ \A k \in 1..Len(cbs) :
                           Cardinality({c \in 1..Len(ev) :
                               /\ ev[c].ev = "cb" /\ ev[c].quote = i
                               /\ ev[c].cb = k}) = 1
            /\ \A s \in DOMAIN out.ticks :
                 \E i \in 1..Len(msg) :
                    /\ msg[i].symbol = s
                    /\ out.ticks[s] = HandlerTick(msg[i])
                    /\ \A j \in (i + 1)..Len(msg) : msg[j].symbol # s

\* the first of two callbacks raised on the first of two quotes
C40_Witness ==
    /\ last.op = "_handler"
    /\ Len(last.arg.msg) = 2
    /\ Len(last.arg.callbacks) = 2
    /\ last.arg.callbacks[1] = "raise"
    /\ Len(last.ret[1].events) = 6
    /\ last.ret[1].events[2].outcome = "raise"

====
